---- MODULE Spec2Model ----
(***************************************************************************)
(* A model of mars9/ramfs: the per-connection 9P2000 pipeline (conn.proc), *)
(* the dispatcher (server.Listen and its handlers), the Fid layer and the  *)
(* node tree with its path-id allocator.                                   *)
(*                                                                         *)
(* uint32 words that the code tests bit by bit (modes, permissions, open   *)
(* modes, afid) are sets of bit positions: & is \cap, | is \cup, &^ is \.  *)
(* One connection is modelled; a tag is the index of a request slot.       *)
(* An atomic step holds at most one access to a location that another     *)
(* goroutine can reach without the lock that covers it: the mode of a node *)
(* (node.Wstat writes it with no lock held), its name and group as the     *)
(* tests of node.Wstat and node.HasPerm read them, the children of a       *)
(* directory as walk reads them, the member map of a group as HasPerm and  *)
(* Wstat read it, and the fields node, uid and New of a Fid. Taking a lock *)
(* goes with the first such access after it, releasing it with the last    *)
(* one before it; accesses that the held lock covers go with either. A     *)
(* lock that is held from one step to the next is a field of the slot      *)
(* (hold, fl, cf). The phase of a slot is the place in the code at which   *)
(* its goroutine stands. A map that is read while another goroutine writes *)
(* it is a data race: the read gives the value before or after the write,  *)
(* or the runtime ends the process.                                        *)
(*                                                                         *)
(* Go pointers carry no observable identity, so every step ends by         *)
(* renumbering the live Fid and node objects canonically (Commit).         *)
(* The specifications share the actions and differ in the client that      *)
(* drives them: Spec (every message type on a fixed tree), SpecPath        *)
(* (creates and remove-on-close), SpecExcl (exclusive-use files),          *)
(* SpecPerm (permissions and open modes), SpecConc (two requests in        *)
(* flight: rename against create and remove), and one for each further     *)
(* group of operations. SpecFile and SpecWalk apply the file buffer and    *)
(* walk to inputs of their own.                                            *)
(***************************************************************************)
EXTENDS Integers, Sequences, FiniteSets, TLC

(* ------------------------------ bounds -------------------------------- *)
MaxFid == 2
MaxTag == 1
MaxNodes == 7
MaxPath == 8
MaxVers == 2

(* ----------------------- 9P2000 message types ------------------------- *)
Tversion == 100
Tauth == 102
Tattach == 104
Rerror == 107
Tflush == 108
Twalk == 110
Topen == 112
Tcreate == 114
Tread == 116
Twrite == 118
Tclunk == 120
Tremove == 122
Tstat == 124
Twstat == 126
Rversion == 101

IOHDRSZ == 24
MAXWELEM == 16
BLOCKSIZE == 2097152
FirstPath == 5

(* ------------------------------ bit words ----------------------------- *)
Bits(n) == {i \in 0..30 : (n \div (2^i)) % 2 = 1}
Shr(m, k) == {b - k : b \in {x \in m : x >= k}}
AllOnes == 0..31

DMDIR == {31}
DMAPPEND == {30}
DMEXCL == {29}
DMTMP == {26}
DMREAD == {2}
DMWRITE == {1}
DMEXEC == {0}
QTDIR == {7}
OREAD == {}
OWRITE == {0}
ORDWR == {1}
OEXEC == {0, 1}
OTRUNC == {4}
ORCLOSE == {6}
NOFID == AllOnes
P0666 == Bits(438)
P0777 == Bits(511)

ErrPerm == "permission denied"
ErrNotOpen == "file not open for I/O"
ErrExcl == "exclusive use file already open"
ErrNotExist == "file does not exist"

HostOwner == "adm"

(* ------------------------------ universes ----------------------------- *)
FidNums == 0..MaxFid
Tags == 0..MaxTag
NodeIds == 1..MaxNodes
FidObjs == 1..(MaxFid + 4 * MaxTag + 5)
RootId == 1
BootNodes == 4
Nil == 0

VARIABLES
  nodes,     \* node objects: NodeIds -> node record (live = FALSE: no object)
  fspath,    \* FS.path, the path-id counter
  pathmap,   \* FS.pathmap, the recycled path ids
  groupmap,  \* group.groupmap: user id -> [leader, members]
  fids,      \* Fid objects: FidObjs -> fid record (live = FALSE: no object)
  fidmap,    \* conn.fidmap: FidNums -> Fid object, Nil when absent
  cuid,      \* conn.uid
  slots,     \* the proc goroutines: Tags -> [phase, tx, fid, err, n, hold, next]
  reply,     \* the last reply written for each tag
  crashed,   \* the process has panicked
  ftest,     \* a file buffer on its own, as newFile returns it, and what the
             \* last WriteAt and ReadAt on it returned
  wtest,     \* the last walk on the tree of TestWalk and what it returned
  cio        \* conn.err and the stream conn.rwc: [err, rbroken, wbroken, eof, first]

fsVars == <<nodes, fspath, pathmap, groupmap>>
connVars == <<fids, fidmap, cuid>>
vars == <<nodes, fspath, pathmap, groupmap, fids, fidmap, cuid, slots, reply, crashed, ftest,
          wtest, cio>>

(* ------------------------------ file buffer --------------------------- *)
EmptyFile == [size |-> 0, block |-> <<>>]

Min(a, b) == IF a < b THEN a ELSE b

Zeros(k) == [i \in 1..k |-> 0]

\* copy(dst[off:], p) on a block: the first Min(Len(dst) - off, Len(p)) bytes of p
CopyInto(dst, off, p) ==
  [i \in 1..Len(dst) |->
     IF i > off /\ i - off <= Len(p) THEN p[i - off] ELSE dst[i]]

\* the loop of file.WriteAt; f.block is a map from block number to bytes.
\* f.block[num][off:] panics when off is beyond the block's length
RECURSIVE WriteLoop(_, _, _, _, _, _)
WriteLoop(f, bs, p, num, off, expanded) ==
  IF Len(p) = 0 THEN [file |-> f, panic |-> FALSE]
  ELSE
    LET consume == Min(bs - off, Len(p))
        found == num \in DOMAIN f.block
        blk0 == IF found THEN f.block[num] ELSE <<>>
        blk1 == IF ~found THEN Zeros(consume)
                ELSE IF off + consume > Len(blk0)
                     THEN [i \in 1..(off + consume) |->
                             IF i <= Len(blk0) THEN blk0[i] ELSE 0]
                     ELSE blk0
        exp == expanded \/ ~found \/ (off + consume > Len(blk0))
        m == Min(Len(blk1) - off, Len(p))
        blk2 == CopyInto(blk1, off, p)
        size2 == IF exp
                 THEN (IF m > f.size THEN f.size + (m - f.size) ELSE f.size + m)
                 ELSE f.size
        f2 == [size |-> size2,
               block |-> [k \in DOMAIN f.block \cup {num} |->
                            IF k = num THEN blk2 ELSE f.block[k]]]
        f1 == [size |-> f.size,
               block |-> [k \in DOMAIN f.block \cup {num} |->
                            IF k = num THEN blk1 ELSE f.block[k]]]
    IN IF off > Len(blk1) THEN [file |-> f1, panic |-> TRUE]
       ELSE WriteLoop(f2, bs, SubSeq(p, m + 1, Len(p)), num + 1, 0, exp)

\* file.WriteAt: [err, n, file]; err is "panic" when the loop panics
FileWriteAt(f, bs, p, offset) ==
  IF offset < 0 THEN [err |-> "negative offset", n |-> 0, file |-> f]
  ELSE LET off == Min(offset, f.size)
           w == WriteLoop(f, bs, p, off \div bs, off % bs, FALSE)
       IN [err |-> IF w.panic THEN "panic" ELSE "",
           n |-> IF w.panic THEN 0 ELSE Len(p),
           file |-> w.file]

\* the loop of file.ReadAt: count bytes starting in block num at off.
\* f.block[num][off:] panics when off is beyond the block's length (a block
\* that is not in the map is the nil slice)
RECURSIVE ReadLoop(_, _, _, _, _)
ReadLoop(f, count, num, off, acc) ==
  IF count = 0 THEN [data |-> acc, panic |-> FALSE]
  ELSE LET blk == IF num \in DOMAIN f.block THEN f.block[num] ELSE <<>>
           m == Min(count, Len(blk) - off)
       IN IF off > Len(blk) THEN [data |-> acc, panic |-> TRUE]
          ELSE IF Len(blk) - off = 0 THEN [data |-> acc, panic |-> FALSE]
          ELSE ReadLoop(f, count - m, num + 1, 0, acc \o SubSeq(blk, off + 1, off + m))

\* file.ReadAt with a buffer p of length len: [err, data]
FileReadAt(f, bs, len, offset) ==
  IF offset < 0 THEN [err |-> "negative offset", data |-> <<>>]
  ELSE IF offset > f.size THEN [err |-> "EOF", data |-> <<>>]
  ELSE LET count == Min(len, f.size - offset)
           r == ReadLoop(f, count, offset \div bs, offset % bs, <<>>)
       IN [err |-> IF r.panic THEN "panic" ELSE "", data |-> r.data]

(* ------------------------------ nodes --------------------------------- *)
NoChildren == <<>>

FreeNode ==
  [live |-> FALSE, kind |-> "", name |-> "", uid |-> "", gid |-> "", mode |-> {},
   type |-> {}, qtype |-> {}, path |-> 0, vers |-> 0, length |-> 0, file |-> EmptyFile,
   parent |-> Nil, children |-> NoChildren, open |-> FALSE, orclose |-> FALSE]

\* a newNode whose Dir.Type carries the type of the Qid
newNode_TypeOfQid(name, uid, gid, perm, path, kind, parent) ==
  [live |-> TRUE,
   kind |-> IF perm \cap DMDIR # {} THEN "dir" ELSE kind,
   name |-> name, uid |-> uid, gid |-> gid, mode |-> perm,
   type |-> Shr(perm, 24), qtype |-> Shr(perm, 24), path |-> path, vers |-> 0,
   length |-> 0, file |-> EmptyFile, parent |-> parent, children |-> NoChildren,
   open |-> FALSE, orclose |-> FALSE]

\* newNode: kind names the buffer behind node.file ("dir" has none). The
\* Dir literal sets Qid.Type (qtype) and leaves Dir.Type (type) at zero
newNode(name, uid, gid, perm, path, kind, parent) ==
  [live |-> TRUE,
   kind |-> IF perm \cap DMDIR # {} THEN "dir" ELSE kind,
   name |-> name, uid |-> uid, gid |-> gid, mode |-> perm,
   type |-> {}, qtype |-> Shr(perm, 24), path |-> path, vers |-> 0, length |-> 0,
   file |-> EmptyFile, parent |-> parent, children |-> NoChildren,
   open |-> FALSE, orclose |-> FALSE]

IsDir(nd) == nd.mode \cap DMDIR # {}

MapPut(c, k, v) == [x \in DOMAIN c \cup {k} |-> IF x = k THEN v ELSE c[x]]
MapDel(c, k) == [x \in DOMAIN c \ {k} |-> c[x]]

\* newGroup: with owner = "adm" the later entry of the literal replaces the first
newGroup(owner) ==
  [u \in {"adm", "none", owner} |->
     IF u = owner THEN [leader |-> owner, members |-> {}]
     ELSE IF u = "adm" THEN [leader |-> "adm", members |-> {owner}]
     ELSE [leader |-> "none", members |-> {}]]

\* node.HasPerm: "yes", "no", or "panic" when the node's group is not in the
\* group database (the "can't happen" branch)
HasPermR(g, nd, uname, perm) ==
  LET other == Bits(7)
      want == perm \cap other
      fperm == nd.mode \cap other
      fuser == IF nd.uid = uname
               THEN fperm \cup (Shr(nd.mode, 6) \cap other) ELSE fperm
  IN IF uname = "none" /\ (fperm \cap want) = want THEN "yes"
     ELSE IF uname \in DOMAIN g
          THEN IF (fuser \cap want) = want THEN "yes"
               ELSE IF nd.gid \notin DOMAIN g THEN "panic"
               ELSE LET fgroup == IF uname \in g[nd.gid].members
                                  THEN fuser \cup (Shr(nd.mode, 3) \cap other)
                                  ELSE fuser
                    IN IF (fgroup \cap want) = want THEN "yes" ELSE "no"
          ELSE "no"

HasPerm(g, nd, uname, perm) == HasPermR(g, nd, uname, perm) = "yes"

\* one step of walk: ".." is the parent, any other name is looked up in the
\* children (a node that is no directory has none)
walkStep(ns, cur, name) ==
  IF name = ".." THEN [found |-> TRUE, node |-> ns[cur].parent]
  ELSE IF name \in DOMAIN ns[cur].children
  THEN [found |-> TRUE, node |-> ns[cur].children[name]]
  ELSE [found |-> FALSE, node |-> cur]

\* walk, the check on the node a step found: stat is the node's Dir, and
\* Type is the Dir's own field, not the type of its Qid
walkRefused(nd) == nd.type \cap QTDIR # {} /\ nd.mode \cap DMEXEC # {}

\* walk on a tree that nothing else changes: the node reached, the error,
\* and the nodes landed on
RECURSIVE walk(_, _, _, _)
walk(ns, cur, path, seen) ==
  IF Len(path) = 0 THEN [node |-> cur, err |-> "", seen |-> seen]
  ELSE
    LET st == walkStep(ns, cur, Head(path))
    IN IF ~st.found THEN [node |-> cur, err |-> ErrNotExist, seen |-> seen]
       ELSE IF walkRefused(ns[st.node])
            THEN [node |-> cur, err |-> ErrPerm, seen |-> seen \cup {st.node}]
            ELSE walk(ns, st.node, Tail(path), seen \cup {st.node})

(* --------------------------- the group file --------------------------- *)
MaxCmds == 3

\* unmarshal into a command: the bytes that separate tokens
Blank == {" ", "\t", "\n", "\r"}

\* the loop of unmarshal: done holds the tokens that are complete, cur the
\* token being read ("" between tokens); at most 64 tokens of at most 64
\* bytes
RECURSIVE Tokens(_, _, _)
Tokens(data, done, cur) ==
  IF Len(data) = 0
  THEN [err |-> "", tok |-> IF Len(cur) = 0 THEN done ELSE Append(done, cur)]
  ELSE IF Head(data) \in Blank
  THEN Tokens(Tail(data), IF Len(cur) = 0 THEN done ELSE Append(done, cur), "")
  ELSE IF Len(cur) = 0 /\ Len(done) >= 64
  THEN [err |-> "too many arguments", tok |-> done]
  ELSE IF Len(cur) = 64
  THEN [err |-> "argument too long", tok |-> done]
  ELSE Tokens(Tail(data), done, cur \o Head(data))

\* unmarshal(data, &cmd): [err, name, args]
unmarshal(data) ==
  LET r == Tokens(data, <<>>, "")
  IN IF r.err # "" THEN [err |-> r.err, name |-> "", args |-> <<>>]
     ELSE IF Len(r.tok) = 0
     THEN [err |-> "command name missing", name |-> "", args |-> <<>>]
     ELSE [err |-> "", name |-> Head(r.tok), args |-> Tail(r.tok)]

\* groupmap.UserAdd: [err, g]
UserAdd(g, uid) ==
  IF uid \in DOMAIN g THEN [err |-> "user " \o uid \o " exists", g |-> g]
  ELSE [err |-> "", g |-> MapPut(g, uid, [leader |-> uid, members |-> {}])]

\* groupmap.GroupAdd with one group: [err, g]
GroupAdd(g, uid, gid) ==
  IF uid \notin DOMAIN g THEN [err |-> "user " \o uid \o " not found", g |-> g]
  ELSE IF gid \notin DOMAIN g THEN [err |-> "group " \o gid \o " not found", g |-> g]
  ELSE IF gid = uid THEN [err |-> "", g |-> g]
  ELSE [err |-> "", g |-> [g EXCEPT ![gid].members = @ \cup {uid}]]

\* group.WriteAt with the case of equal arguments tried first
GroupWriteAt_EqualFirst(g, p) ==
  LET cmd == unmarshal(p)
      a0 == cmd.args[1]
      a1 == cmd.args[2]
  IN IF cmd.err # "" THEN [err |-> cmd.err, g |-> g]
     ELSE IF cmd.name # "uname" THEN [err |-> "invalid command " \o cmd.name, g |-> g]
     ELSE IF Len(cmd.args) # 2 THEN [err |-> "uname requires 2 arguments", g |-> g]
     ELSE IF a0 = a1 THEN UserAdd(g, a0)
     ELSE IF Len(a1) > 1 /\ Head(a1) = "+" THEN GroupAdd(g, a0, Tail(a1))
     ELSE IF Len(a1) > 1 /\ Head(a1) = ":" THEN UserAdd(g, a0)
     ELSE [err |-> "invalid command", g |-> g]

\* group.WriteAt: [err, g]
GroupWriteAt(g, p) ==
  LET cmd == unmarshal(p)
      a0 == cmd.args[1]
      a1 == cmd.args[2]
  IN IF cmd.err # "" THEN [err |-> cmd.err, g |-> g]
     ELSE IF cmd.name # "uname" THEN [err |-> "invalid command " \o cmd.name, g |-> g]
     ELSE IF Len(cmd.args) # 2 THEN [err |-> "uname requires 2 arguments", g |-> g]
     ELSE IF Len(a1) > 1 /\ Head(a1) = "+" THEN GroupAdd(g, a0, Tail(a1))
     ELSE IF a0 = a1 THEN UserAdd(g, a0)
     ELSE IF Len(a1) > 1 /\ Head(a1) = ":" THEN UserAdd(g, a0)
     ELSE [err |-> "invalid command", g |-> g]

RECURSIVE SumLen(_)
SumLen(S) ==
  IF S = {} THEN 0
  ELSE LET x == CHOOSE y \in S : TRUE IN Len(x) + SumLen(S \ {x})

\* the length of user.Bytes: uid:uid:leader:members, the members with commas
\* between them
UserLen(uid, u) ==
  2 * Len(uid) + Len(u.leader) + 3 + SumLen(u.members)
    + (IF u.members = {} THEN 0 ELSE Cardinality(u.members) - 1)

RECURSIVE LinesLen(_, _)
LinesLen(g, S) ==
  IF S = {} THEN 0
  ELSE LET x == CHOOSE y \in S : TRUE IN UserLen(x, g[x]) + 1 + LinesLen(g, S \ {x})

\* the length of groupmap.Bytes: one line for each user
GroupLen(g) == LinesLen(g, DOMAIN g)

\* no group database that MaxCmds commands of the clients make is longer
MaxGroupLen == 100

\* ctl.WriteAt: the error. The command listen with two arguments starts
\* FS.Listen in a goroutine of its own and is answered without error
CtlWriteAt(p) ==
  LET cmd == unmarshal(p)
  IN IF cmd.err # "" THEN cmd.err
     ELSE IF cmd.name = "listen"
     THEN (IF Len(cmd.args) # 2 THEN "listen requires 2 arguments" ELSE "")
     ELSE "invalid command " \o cmd.name

(* ------------------------------ fids ---------------------------------- *)
\* omode and holds are history fields, kept for the properties (the Fid
\* struct keeps neither): omode is the mode of the open or create that set
\* opened; holds says that node.Open took the in-use flag of an
\* exclusive-use file for this fid, which has not closed since
FreeFid ==
  [live |-> FALSE, num |-> 0, uid |-> "", node |-> Nil, opened |-> FALSE,
   ref |-> 0, new |-> Nil, omode |-> {}, holds |-> FALSE]

\* FS.newFid followed by the assignments of conn.GetFid
newFid(num, uid) ==
  [live |-> TRUE, num |-> num, uid |-> uid, node |-> RootId, opened |-> FALSE,
   ref |-> 0, new |-> Nil, omode |-> {}, holds |-> FALSE]

FreeFidObj(fs) == CHOOSE o \in FidObjs : ~fs[o].live /\ \A q \in FidObjs : q < o => fs[q].live

\* conn.GetFid: the fid object for num, created at the root with conn.uid when absent
GetFid(fs, fm, uid, num) ==
  IF fm[num] # Nil THEN [fids |-> fs, fidmap |-> fm, fid |-> fm[num]]
  ELSE LET o == FreeFidObj(fs)
       IN [fids |-> [fs EXCEPT ![o] = newFid(num, uid)],
           fidmap |-> [fm EXCEPT ![num] = o], fid |-> o]

(* ------------------------------ requests ------------------------------ *)
NoStat == [name |-> "", mode |-> AllOnes, gid |-> ""]

TxBase ==
  [type |-> 0, fid |-> 0, newfid |-> 0, wname |-> <<>>, mode |-> {}, perm |-> {},
   name |-> "", uname |-> "", aname |-> <<>>, afid |-> NOFID, msize |-> 0,
   data |-> <<>>, offset |-> 0, count |-> 0, stat |-> NoStat]

\* the locals of node.HasPerm when it is not running
NoPerm == [hn |-> Nil, hu |-> "", want |-> {}, fperm |-> {}, hgid |-> "", ret |-> ""]

\* a proc goroutine and the handler it waits for. phase is the place in the
\* code; fid is req.Fid; the other fields are the locals that live across
\* steps: n and par (node pointers), nf (the Fid GetFid returned for Newfid),
\* wf (the Fid read from Fid.New), path (the names a walk has still to
\* take), uid (a user name read earlier), off (the offset of a write), pid
\* (the path id newPath returned), m (the mode node.Wstat computed), hold
\* (the node whose mutex is held), fl (the mutex of req.Fid is held), cf
\* (conn.f is held), next (where node.Close or node.remove returns to), and
\* hp, the locals of node.HasPerm: the node, the user, the wanted bits, the
\* bits found so far, the group id read, and ret, the place the call
\* returns to when the answer is yes
IdleSlot ==
  [phase |-> "idle", tx |-> TxBase, fid |-> Nil, err |-> "", n |-> Nil,
   hold |-> Nil, next |-> "", par |-> Nil, nf |-> Nil, wf |-> Nil, path |-> <<>>,
   uid |-> "", off |-> 0, pid |-> 0, m |-> {}, fl |-> FALSE, cf |-> FALSE,
   hp |-> NoPerm]

NoReply == [type |-> 0, ename |-> ""]

(* ------------------------------ state --------------------------------- *)
\* a connection as FS.Listen makes it, on a stream that works: err is
\* conn.err ("" for nil); rbroken and wbroken say that reads and writes on the
\* stream fail from now on, eof that recv has returned; first is a history
\* field, the first error a read or a write of a frame returned
NoIo == [err |-> "", rbroken |-> FALSE, wbroken |-> FALSE, eof |-> FALSE, first |-> ""]

\* conn.setErr: the value of conn.err after setErr(err)
setErr(cur, err) == IF err = "" THEN err ELSE cur

\* conn.getErr
getErr(c) == c.err

\* a read or a write of a frame has failed with err: setErr is called
Failed(c, err) ==
  [c EXCEPT !.err = setErr(@, err), !.first = IF @ = "" THEN err ELSE @]

\* New(""): root, /adm, /adm/group, /adm/ctl with path ids 0..3
InitNodes ==
  [i \in NodeIds |->
     IF i = 1 THEN [newNode("/", HostOwner, "adm", Bits(493) \cup DMDIR, 0, "dir", 1)
                      EXCEPT !.children = [k \in {"adm"} |-> 2]]
     ELSE IF i = 2 THEN [newNode("adm", "adm", "adm", Bits(504) \cup DMDIR, 1, "dir", 1)
                           EXCEPT !.children = [k \in {"group", "ctl"} |->
                                                  IF k = "group" THEN 3 ELSE 4]]
     ELSE IF i = 3 THEN newNode("group", "adm", "adm", Bits(432), 2, "group", 2)
     ELSE IF i = 4 THEN newNode("ctl", "adm", "adm", Bits(144), 3, "ctl", 2)
     ELSE FreeNode]

\* a file buffer as newFile(bs) returns it, with nothing written or read yet:
\* the last write (data, off, the size before it, the count returned), what the
\* read that followed returned, the greatest end of a write so far, and how
\* many writes of the test sequence have been made
NewTest(bs) ==
  [file |-> EmptyFile, bs |-> bs, wrote |-> FALSE, data |-> <<>>, off |-> 0,
   size0 |-> 0, n |-> 0, read |-> <<>>, rerr |-> "", hwm |-> 0, step |-> 0,
   panic |-> FALSE]

InitConn ==
  /\ nodes = InitNodes
  /\ fspath = FirstPath
  /\ pathmap = {}
  /\ groupmap = newGroup(HostOwner)
  /\ fids = [o \in FidObjs |-> FreeFid]
  /\ fidmap = [k \in FidNums |-> Nil]
  /\ cuid = "none"
  /\ slots = [t \in Tags |-> IdleSlot]
  /\ reply = [t \in Tags |-> NoReply]
  /\ crashed = FALSE
  /\ cio = NoIo

\* no walk made yet
NoWalk == [op |-> "", name |-> "", from |-> Nil, path |-> <<>>, node |-> Nil, err |-> ""]

Init == InitConn /\ ftest = NewTest(BLOCKSIZE) /\ wtest = NoWalk

(* ------------------------------ locks --------------------------------- *)
\* a node's mutex is held from one step to the next inside node.Create,
\* node.Open, node.Close, node.remove, node.ReadAt and node.WriteAt (the
\* node's own) and inside the rename of node.Wstat (the parent's)
Held(ss, n) == \E t \in Tags : ss[t].hold = n

\* Fid.mu is held from one step to the next inside Fid.Open and Fid.Close,
\* which call into the node with the lock held, and between the two
\* assignments of server.Attach
FidLocked(ss, o) == \E t \in Tags : ss[t].fl /\ ss[t].fid = o

\* conn.f is held across steps inside conn.DelFid, which calls refCount with
\* the lock held
ConnLocked(ss) == \E t \in Tags : ss[t].cf

(* ---------------- objects no reference reaches are dropped ------------ *)
\* the places of a walk at which Fid.New, as this request or a later one set
\* it, is still to be read
WalkPhases ==
  {"work", "walkSrc", "walkSet0", "walkArg", "walkLook", "walkStat", "walkMode",
   "walkNew", "walkSet", "walkNew2", "walkNode", "walkQid"}

NewInUse(ss, o) ==
  \E t \in Tags : ss[t].fid = o /\ ss[t].tx.type = Twalk /\ ss[t].phase \in WalkPhases

LiveFids(fs, fm, ss) ==
  LET base == ({fm[k] : k \in FidNums} \cup {ss[t].fid : t \in Tags}
                 \cup {ss[t].nf : t \in Tags} \cup {ss[t].wf : t \in Tags}) \ {Nil}
  IN base \cup ({fs[o].new : o \in {b \in base : NewInUse(ss, b)}} \ {Nil})

RECURSIVE NodeClosure(_, _, _)
NodeClosure(ns, S, k) ==
  IF k = 0 THEN S
  ELSE LET T == S \cup {ns[i].parent : i \in S}
                  \cup UNION {{ns[i].children[c] : c \in DOMAIN ns[i].children} : i \in S}
       IN IF T = S THEN S ELSE NodeClosure(ns, T, k - 1)

LiveNodes(ns, fs, lf, ss) ==
  NodeClosure(ns, ({RootId} \cup {fs[o].node : o \in lf}
                    \cup {ss[t].n : t \in Tags} \cup {ss[t].hold : t \in Tags}
                    \cup {ss[t].par : t \in Tags} \cup {ss[t].hp.hn : t \in Tags}) \ {Nil},
              MaxNodes)

\* Object identities are not observable, so the objects that stay are
\* renumbered in a fixed order: a fid in the map takes its number + 1, a fid
\* that only a request holds takes a place after them, by tag
MinTag(S) == CHOOSE t \in S : \A u \in S : t <= u

FidRank(fs, fm, ss, o) ==
  IF \E k \in FidNums : fm[k] = o
  THEN 1 + (CHOOSE k \in FidNums : fm[k] = o)
  ELSE IF \E t \in Tags : ss[t].fid = o
  THEN MaxFid + 2 + 4 * MinTag({t \in Tags : ss[t].fid = o})
  ELSE IF \E t \in Tags : ss[t].nf = o
  THEN MaxFid + 3 + 4 * MinTag({t \in Tags : ss[t].nf = o})
  ELSE IF \E t \in Tags : ss[t].wf = o
  THEN MaxFid + 4 + 4 * MinTag({t \in Tags : ss[t].wf = o})
  ELSE MaxFid + 5 + 4 * MinTag({t \in Tags : ss[t].fid # Nil /\ fs[ss[t].fid].new = o})

\* the names of the model, in a fixed order
NameOrder == <<"adm", "ctl", "group", "x", "y">>
NameIdx(s) == CHOOSE i \in 1..Len(NameOrder) : NameOrder[i] = s

\* created nodes are ordered by their place in the tree; a node no directory
\* lists is ordered by the lowest fid that refers to it
NodeKey(ns, fs, i) ==
  LET p == ns[i].parent
      name == ns[i].name
      refs == {o \in FidObjs : fs[o].live /\ fs[o].node = i}
      big == (MaxNodes + 1) * (Len(NameOrder) + 1)
  IN IF name \in DOMAIN ns[p].children /\ ns[p].children[name] = i
     THEN p * (Len(NameOrder) + 1) + NameIdx(name)
     ELSE IF refs # {} THEN big + (CHOOSE o \in refs : \A q \in refs : o <= q)
     ELSE 2 * big

\* the next state: objects that the garbage collector would free are reset
Commit(ns0, fs0, fm0, ss0) ==
  \E ns \in {ns0}, fs \in {fs0}, fm \in {fm0}, ss \in {ss0} :
  \E lf \in {LiveFids(fs, fm, ss)} :
  \E fr \in {[o \in FidObjs \cup {Nil} |->
                IF o \in lf THEN FidRank(fs, fm, ss, o) ELSE Nil]} :
  \E fs2 \in {[r \in FidObjs |->
                 IF \E o \in lf : fr[o] = r
                 THEN LET o == CHOOSE q \in lf : fr[q] = r
                      IN [fs[o] EXCEPT !.new = IF NewInUse(ss, o) THEN fr[@] ELSE Nil]
                 ELSE FreeFid]} :
  \E ss2 \in {[t \in Tags |-> [ss[t] EXCEPT !.fid = fr[@], !.nf = fr[@], !.wf = fr[@]]]} :
  \E ln \in {LiveNodes(ns, fs2, {o \in FidObjs : fs2[o].live}, ss2)} :
  \E key \in {[i \in ln |-> NodeKey(ns, fs2, i)]} :
  \E nr \in {[i \in NodeIds \cup {Nil} |->
                IF i \notin ln THEN Nil
                ELSE IF i <= BootNodes THEN i
                ELSE BootNodes + 1
                     + Cardinality({j \in ln : /\ j > BootNodes
                                               /\ \/ key[j] < key[i]
                                                  \/ key[j] = key[i] /\ j < i})]} :
     /\ nodes' = [r \in NodeIds |->
                    IF \E i \in ln : nr[i] = r
                    THEN LET i == CHOOSE q \in ln : nr[q] = r
                         IN [ns[i] EXCEPT !.parent = nr[@],
                                          !.children = [c \in DOMAIN @ |-> nr[@[c]]]]
                    ELSE FreeNode]
     /\ fids' = [o \in FidObjs |-> [fs2[o] EXCEPT !.node = nr[@]]]
     /\ fidmap' = [k \in FidNums |-> IF fm[k] = Nil THEN Nil ELSE fr[fm[k]]]
     /\ slots' = [t \in Tags |-> [ss2[t] EXCEPT !.n = nr[@], !.hold = nr[@], !.par = nr[@],
                                                !.hp.hn = nr[@]]]
     /\ UNCHANGED <<ftest, wtest>>

\* a panic ends the process
Panic ==
  /\ crashed' = TRUE
  /\ UNCHANGED <<nodes, fspath, pathmap, groupmap, fids, fidmap, cuid, slots, reply,
                 cio, ftest, wtest>>

\* the request of slot t goes on: s is its slot after the step
Step(t, ns, fs, s) ==
  /\ Commit(ns, fs, fidmap, [slots EXCEPT ![t] = s])
  /\ UNCHANGED <<groupmap, cuid, reply, cio, crashed>>

\* the step changes nothing but the place in the code
Goto(t, phase) == Step(t, nodes, fids, [slots[t] EXCEPT !.phase = phase])

\* a handler returns err: the transaction goes back to conn.proc with the
\* locals gone and every lock released; g is the group database the handler
\* leaves
ReturnWith(t, ns, fs, g, err) ==
  /\ Commit(ns, fs, fidmap,
            [slots EXCEPT ![t] = [IdleSlot EXCEPT
                                    !.phase = "post", !.err = err, !.fid = slots[t].fid,
                                    !.tx = IF slots[t].tx.type = Tattach
                                           THEN slots[t].tx
                                           ELSE [TxBase EXCEPT !.type = slots[t].tx.type,
                                                               !.fid = slots[t].tx.fid]]])
  /\ groupmap' = g
  /\ UNCHANGED <<cuid, reply, cio, crashed>>

Return(t, ns, fs, err) == ReturnWith(t, ns, fs, groupmap, err)

\* the handler of a request of this type is at its first statement
Running(t, type) ==
  /\ ~crashed
  /\ slots[t].phase = "work"
  /\ slots[t].tx.type = type

\* the places of a goroutine in conn.proc and conn.send
ProcPhases == {"idle", "pre", "ref", "new", "newSet", "post", "dec", "del", "delRef", "out"}

\* the handler of a request of this type is somewhere in its code
Handling(t, type) ==
  /\ ~crashed
  /\ slots[t].tx.type = type
  /\ slots[t].phase \notin ProcPhases

\* a call of the package's interface by the program that embeds the file
\* system (FS.Open, FS.Create, FS.Remove): the slot is the caller's goroutine
\* and tx holds the arguments, aname the names of the cleaned path
FsOpenCall == 201
FsCreateCall == 202
FsRemoveCall == 203

\* the call returns: the caller is not modelled any further, so the Fid it
\* was given is dropped
End(t, ns, fs) ==
  /\ Commit(ns, fs, fidmap, [slots EXCEPT ![t] = IdleSlot])
  /\ UNCHANGED <<groupmap, cuid, reply, cio, crashed>>

\* Fid.Open, Fid.Create, node.Create or node.Open returns err with the nodes
\* ns and its locks released: to conn.proc for a request, to the caller for
\* FS.Open, to the deferred dir.Close, which is node.Close on the directory,
\* for FS.Create
Back(t, ns, err) ==
  IF slots[t].tx.type = FsOpenCall THEN End(t, ns, fids)
  ELSE IF slots[t].tx.type = FsCreateCall
  THEN Step(t, ns, fids,
            [IdleSlot EXCEPT !.phase = "closeNode", !.tx = slots[t].tx,
                             !.n = slots[t].par, !.par = slots[t].par, !.next = "idle"])
  ELSE Return(t, ns, fids, err)

(* ------------------------------ conn.proc ----------------------------- *)
\* the requests of the given types that are under way
Pending(types) ==
  Cardinality({t \in Tags : slots[t].phase # "idle" /\ slots[t].tx.type \in types})

\* the bounds of the model are kept by the client: it sends a write only
\* when no version can pass MaxVers (MaxCmds for /adm/ctl and /adm/group;
\* the version of a temporary file does not move), and a create only when
\* the path ids and the nodes it may take are left
Room(tx) ==
  /\ tx.type = Twrite =>
       \A i \in NodeIds :
         nodes[i].live /\ nodes[i].kind # "dir" /\ nodes[i].mode \cap DMTMP = {} =>
           nodes[i].vers + Pending({Twrite})
             < (IF nodes[i].kind = "file" THEN MaxVers ELSE MaxCmds)
  /\ tx.type \in {Tcreate, FsCreateCall} =>
       /\ \/ fspath + Pending({Tcreate, FsCreateCall}) < MaxPath
          \/ Cardinality(pathmap) > Pending({Tcreate, FsCreateCall})
       /\ Cardinality({i \in NodeIds : nodes[i].live}) + Pending({Tcreate, FsCreateCall})
            < MaxNodes

\* recv reads a request; send starts a proc goroutine for it
Recv(t, tx) ==
  /\ ~crashed
  /\ slots[t].phase = "idle"
  /\ Room(tx)
  /\ slots' = [slots EXCEPT ![t] = [IdleSlot EXCEPT !.phase = "pre", !.tx = tx]]
  /\ ~cio.rbroken /\ ~cio.eof
  /\ getErr(cio) = ""
  /\ reply' = [reply EXCEPT ![t] = NoReply]
  /\ UNCHANGED <<fsVars, connVars, crashed, ftest, wtest, cio>>

\* proc, the first switch: Tversion empties the fid map, Tauth does nothing,
\* every other type resolves tx.Fid. Each is one section of conn.f
ProcPre(t) ==
  /\ ~crashed
  /\ slots[t].phase = "pre"
  /\ LET tx == slots[t].tx
     IN IF tx.type = Tauth
        THEN Commit(nodes, fids, fidmap, [slots EXCEPT ![t].phase = "work"])
        ELSE /\ ~ConnLocked(slots)
             /\ IF tx.type = Tversion
                THEN Commit(nodes, fids, [k \in FidNums |-> Nil],
                            [slots EXCEPT ![t].phase = "work"])
                ELSE LET g == GetFid(fids, fidmap, cuid, tx.fid)
                     IN Commit(nodes, g.fids, g.fidmap,
                               [slots EXCEPT ![t] = [@ EXCEPT !.phase = "ref", !.fid = g.fid]])
  /\ UNCHANGED <<fspath, pathmap, groupmap, cuid, reply, cio, crashed>>

\* proc: incRef (a section of Fid.mu), then for a walk GetFid(Newfid) (a
\* section of conn.f) and the assignment to Fid.New, which no lock covers
ProcRef(t) ==
  /\ ~crashed
  /\ LET s == slots[t]
         o == s.fid
     IN \/ /\ s.phase = "ref"
           /\ ~FidLocked(slots, o)
           /\ Step(t, nodes, [fids EXCEPT ![o].ref = @ + 1],
                   [s EXCEPT !.phase = IF s.tx.type = Twalk THEN "new" ELSE "work"])
        \/ /\ s.phase = "new"
           /\ ~ConnLocked(slots)
           /\ LET g == GetFid(fids, fidmap, cuid, s.tx.newfid)
              IN /\ Commit(nodes, g.fids, g.fidmap,
                           [slots EXCEPT ![t] = [s EXCEPT !.phase = "newSet", !.nf = g.fid]])
                 /\ UNCHANGED <<groupmap, cuid, reply, cio, crashed>>
        \/ /\ s.phase = "newSet"
           /\ Step(t, nodes, [fids EXCEPT ![o].new = s.nf],
                   [s EXCEPT !.phase = "work", !.nf = Nil])
  /\ UNCHANGED <<fspath, pathmap>>

\* a decRef that leaves the count as it is
decRef_Keep(fs, o) == fs

\* Fid.decRef
decRef(fs, o) == [fs EXCEPT ![o].ref = IF @ = 0 THEN 0 ELSE @ - 1]

\* the type of the reply: Rerror on error, else request type + 1
RxType(s) == IF s.err # "" THEN Rerror ELSE s.tx.type + 1

\* the end of proc and the loop of send: the reply is handed over and written
\* when conn.err is nil; a write that fails calls setErr. No other step
\* changes conn.err, so its two tests and the write see the same value
WriteReply(t) ==
  IF getErr(cio) # "" THEN UNCHANGED <<reply, cio>>
  ELSE IF cio.wbroken
  THEN reply' = reply /\ cio' = Failed(cio, "write error")
  ELSE /\ reply' = [reply EXCEPT ![t] = [type |-> RxType(slots[t]), ename |-> slots[t].err]]
       /\ UNCHANGED cio

\* proc, the second switch up to DelFid. Rversion and Rauth: nothing, the
\* reply goes out. Rattach: conn.uid is set in a section of conn.f, then
\* decRef. Every other reply: decRef on the request's fid, which is nil for
\* Tversion and Tauth. The reply is written in a step of its own
ProcPost(t) ==
  /\ ~crashed
  /\ LET s == slots[t]
         rx == RxType(s)
         dec == /\ ~FidLocked(slots, s.fid)
                /\ Step(t, nodes, decRef(fids, s.fid),
                        [s EXCEPT !.phase = IF rx \in {Tattach + 1, Twalk + 1, Tclunk + 1}
                                            THEN "del" ELSE "out"])
     IN \/ /\ s.phase = "post"
           /\ IF rx \in {Tversion + 1, Tauth + 1}
              THEN /\ Commit(nodes, fids, fidmap, [slots EXCEPT ![t] = IdleSlot])
                   /\ WriteReply(t)
                   /\ UNCHANGED <<groupmap, cuid, crashed>>
              ELSE IF s.fid = Nil
              THEN Panic
              ELSE IF rx = Tattach + 1
              THEN /\ ~ConnLocked(slots)
                   /\ Commit(nodes, fids, fidmap, [slots EXCEPT ![t].phase = "dec"])
                   /\ cuid' = fids[s.fid].uid
                   /\ UNCHANGED <<groupmap, reply, cio, crashed>>
              ELSE dec
        \/ /\ s.phase = "dec"
           /\ dec
        \/ /\ s.phase = "out"
           /\ Commit(nodes, fids, fidmap, [slots EXCEPT ![t] = IdleSlot])
           /\ WriteReply(t)
           /\ UNCHANGED <<groupmap, cuid, crashed>>
  /\ UNCHANGED <<fspath, pathmap>>

\* conn.DelFid: the entry goes when the refcount of the fid in the map is zero
DelFid(fs, fm, num) == IF fs[fm[num]].ref = 0 THEN [fm EXCEPT ![num] = Nil] ELSE fm

\* proc, after Rattach, Rwalk or Rclunk: DelFid takes conn.f and looks the
\* fid up; refCount takes the mutex of the fid it found with conn.f held
ProcDelFid(t) ==
  /\ ~crashed
  /\ LET s == slots[t]
         num == fids[s.fid].num
     IN \/ /\ s.phase = "del"
           /\ ~ConnLocked(slots)
           /\ IF fidmap[num] = Nil
              THEN Panic
              ELSE Step(t, nodes, fids, [s EXCEPT !.phase = "delRef", !.cf = TRUE])
        \/ /\ s.phase = "delRef"
           /\ ~FidLocked(slots, fidmap[num])
           /\ Commit(nodes, fids, DelFid(fids, fidmap, num),
                     [slots EXCEPT ![t] = [s EXCEPT !.phase = "out", !.cf = FALSE]])
           /\ UNCHANGED <<groupmap, cuid, reply, cio, crashed>>
  /\ UNCHANGED <<fspath, pathmap>>

(* ------------------------------ data races ---------------------------- *)
\* node.remove: is there an entry under the node's name
Attached(ns, n) == ns[n].name \in DOMAIN ns[ns[n].parent].children

\* the next step of slot u writes the children map of directory d: the
\* assignment of node.Create, the delete of node.remove, the delete and the
\* assignment of the rename of node.Wstat (a delete on an empty map returns
\* before it writes)
ChildWrite(u, d) ==
  LET s == slots[u]
  IN \/ /\ s.phase = "createLink" /\ s.hold = d
        /\ nodes[d].kind = "dir" /\ s.tx.name \notin DOMAIN nodes[d].children
     \/ /\ s.phase = "rmParent" /\ nodes[s.hold].parent = d
        /\ ~Held(slots, d) /\ Attached(nodes, s.hold)
     \/ /\ s.phase = "wsUnlink" /\ s.par = d
        /\ ~Held(slots, d) /\ DOMAIN nodes[d].children # {}
     \/ s.phase = "wsLink" /\ s.hold = d

\* walk reads the children of d, with no lock, while another goroutine is
\* about to write them
ChildRace(t, d) == \E u \in Tags \ {t} : ChildWrite(u, d)

\* the next step of slot u is the write of a command to /adm/group that
\* makes GroupAdd write the member map of group gid: "uname u +gid" for a
\* user u and a group gid that exist and differ, whether or not u is a
\* member already
MemberWrite(u, gid) ==
  LET s == slots[u]
      cmd == unmarshal(s.tx.data)
      a0 == cmd.args[1]
      a1 == cmd.args[2]
  IN /\ s.phase = "writeBuf" /\ s.tx.type = Twrite
     /\ nodes[s.n].kind = "group"
     /\ cmd.err = "" /\ cmd.name = "uname" /\ Len(cmd.args) = 2
     /\ Len(a1) > 1 /\ Head(a1) = "+" /\ Tail(a1) = gid
     /\ a0 \in DOMAIN groupmap /\ gid \in DOMAIN groupmap /\ gid # a0

\* node.HasPerm or node.Wstat reads the member map of gid, with no lock,
\* while another goroutine is about to write it
MemberRace(t, gid) == \E u \in Tags \ {t} : MemberWrite(u, gid)

(* --------------------------- node.HasPerm ----------------------------- *)
\* the places of a goroutine in node.HasPerm
HpPhases == {"hpOther", "hpUser", "hpOwner", "hpGid", "hpGet", "hpMember", "hpGroup"}

\* the call n.HasPerm(uname, perm) by slot s; ret is the place the caller
\* goes on at when the answer is yes
CallPerm(t, s, n, uname, perm, ret) ==
  Step(t, nodes, fids,
       [s EXCEPT !.phase = "hpOther",
                 !.hp = [hn |-> n, hu |-> uname, want |-> perm \cap Bits(7),
                         fperm |-> {}, hgid |-> "", ret |-> ret]])

\* node.HasPerm returns ok to the place that called it: Fid.Open, Fid.Create
\* and node.Wstat return "permission denied" on no, Fid.Close returns an
\* error that server.Clunk ignores, and server.Remove goes on to the clunk
PermReturn(t, ok) ==
  LET s == [slots[t] EXCEPT !.hp = NoPerm]
      ret == slots[t].hp.ret
  IN IF ok THEN Step(t, nodes, fids, [s EXCEPT !.phase = ret])
     ELSE IF ret \in {"removeUid2", "removeNodeRd2"}
     THEN Step(t, nodes, fids, [s EXCEPT !.phase = "clunk", !.n = Nil, !.par = Nil])
     ELSE IF ret \in {"closeUid2", "closeLock"}
     THEN Return(t, nodes, fids, "")
     ELSE Back(t, nodes, ErrPerm)

\* node.HasPerm, one step for each read that no lock covers and for each
\* call of group.Get (a section of the group file's lock): the mode for the
\* bits of other; group.Get(uname), and the owner, which never changes; the
\* mode for the bits of the owner; the node's group; group.Get of that
\* group, which panics when there is none; the member map of that group,
\* which is the map of the database itself; the mode for the bits of the
\* group
DoHasPerm(t) ==
  /\ ~crashed
  /\ slots[t].phase \in HpPhases
  /\ LET s == slots[t]
         h == s.hp
         nd == nodes[h.hn]
         other == Bits(7)
         owner == h.fperm \cup (Shr(nd.mode, 6) \cap other)
         group == h.fperm \cup (Shr(nd.mode, 3) \cap other)
     IN \/ /\ s.phase = "hpOther"
           /\ IF h.hu = "none" /\ h.want \subseteq nd.mode \cap other
              THEN PermReturn(t, TRUE)
              ELSE Step(t, nodes, fids,
                        [s EXCEPT !.phase = "hpUser", !.hp.fperm = nd.mode \cap other])
        \/ /\ s.phase = "hpUser"
           /\ IF h.hu \notin DOMAIN groupmap
              THEN PermReturn(t, FALSE)
              ELSE IF nd.uid = h.hu
              THEN Goto(t, "hpOwner")
              ELSE IF h.want \subseteq h.fperm
              THEN PermReturn(t, TRUE)
              ELSE Goto(t, "hpGid")
        \/ /\ s.phase = "hpOwner"
           /\ IF h.want \subseteq owner
              THEN PermReturn(t, TRUE)
              ELSE Step(t, nodes, fids, [s EXCEPT !.phase = "hpGid", !.hp.fperm = owner])
        \/ /\ s.phase = "hpGid"
           /\ Step(t, nodes, fids, [s EXCEPT !.phase = "hpGet", !.hp.hgid = nd.gid])
        \/ /\ s.phase = "hpGet"
           /\ IF h.hgid \notin DOMAIN groupmap THEN Panic ELSE Goto(t, "hpMember")
        \/ /\ s.phase = "hpMember"
           /\ \/ MemberRace(t, h.hgid) /\ Panic
              \/ IF h.hu \in groupmap[h.hgid].members
                 THEN Goto(t, "hpGroup")
                 ELSE PermReturn(t, h.want \subseteq h.fperm)
        \/ /\ s.phase = "hpGroup"
           /\ PermReturn(t, h.want \subseteq group)
  /\ UNCHANGED <<fspath, pathmap>>


(* ------------------------------ handlers ------------------------------ *)
\* server.Version
DoVersion(t) ==
  /\ Running(t, Tversion)
  /\ Return(t, nodes, fids,
            IF slots[t].tx.msize < IOHDRSZ THEN "msize too small" ELSE "")
  /\ UNCHANGED <<fspath, pathmap>>

\* server.Auth
DoAuth(t) ==
  /\ Running(t, Tauth)
  /\ Return(t, nodes, fids, "authentication not required")
  /\ UNCHANGED <<fspath, pathmap>>

\* server.Flush
DoFlush(t) ==
  /\ Running(t, Tflush)
  /\ Return(t, nodes, fids, "")
  /\ UNCHANGED <<fspath, pathmap>>

KnownTypes ==
  {Tversion, Tauth, Tattach, Tflush, Twalk, Topen, Tcreate, Tread, Twrite,
   Tclunk, Tremove, Tstat, Twstat}

\* server.BadFcall: any type the switch of server.Listen does not name
DoBadFcall(t) ==
  /\ ~crashed
  /\ slots[t].phase = "work"
  /\ slots[t].tx.type \notin KnownTypes
  /\ Return(t, nodes, fids, "bad fcall")
  /\ UNCHANGED <<fspath, pathmap>>

\* server.Stat: the read of fid.node, then node.Stat, which takes the read
\* lock of that node (the bytes of the reply are not state)
DoStat(t) ==
  /\ Handling(t, Tstat)
  /\ LET s == slots[t]
     IN \/ /\ s.phase = "work"
           /\ Step(t, nodes, fids, [s EXCEPT !.phase = "statLock", !.n = fids[s.fid].node])
        \/ /\ s.phase = "statLock"
           /\ ~Held(slots, s.n)
           /\ Return(t, nodes, fids, "")
  /\ UNCHANGED <<fspath, pathmap>>

\* walk, lines 629-639: the first name is taken off the path; ".." is the
\* parent, any other name is looked up in the children, which no lock
\* covers. fail is what the caller does with "file does not exist"
Look(t, statPhase, fail) ==
  LET s == slots[t]
      st == walkStep(nodes, s.n, Head(s.path))
  IN \/ /\ Head(s.path) # ".." /\ ChildRace(t, s.n)
        /\ Panic
     \/ IF ~st.found THEN fail
        ELSE Step(t, nodes, fids,
                  [s EXCEPT !.phase = statPhase, !.n = st.node, !.path = Tail(@)])

\* walk, lines 641-642: node.Stat on the node found and the test of the
\* type of its Dir, which never changes
WalkStat(t, modePhase, nextPhase) ==
  /\ ~Held(slots, slots[t].n)
  /\ Goto(t, IF nodes[slots[t].n].type \cap QTDIR # {} THEN modePhase ELSE nextPhase)

\* walk, line 643: the read of the mode; fail is what the caller does with
\* "permission denied"
WalkMode(t, nextPhase, fail) ==
  IF nodes[slots[t].n].mode \cap DMEXEC # {} THEN fail ELSE Goto(t, nextPhase)

\* server.Attach and FS.Attach; aname is the cleaned path, split at "/".
\* The steps: group.Get; for each name the steps of walk; the assignment of
\* the node and the one of the user, both under Fid.mu; node.Stat for the
\* reply's qid
DoAttach(t) ==
  /\ Handling(t, Tattach)
  /\ LET s == slots[t]
         tx == s.tx
         o == s.fid
         next == IF Len(s.path) = 0 THEN "attSet" ELSE "attLook"
     IN \/ /\ s.phase = "work"
           /\ IF tx.afid # NOFID
              THEN Return(t, nodes, fids, "authentication not required")
              ELSE Step(t, nodes, fids,
                        [s EXCEPT !.phase = IF Len(tx.aname) = 0 THEN "attSet" ELSE "attLook",
                                  !.uid = IF tx.uname \in DOMAIN groupmap
                                          THEN tx.uname ELSE "none",
                                  !.n = RootId, !.path = tx.aname])
        \/ /\ s.phase = "attLook"
           /\ Look(t, "attStat", Return(t, nodes, fids, ErrNotExist))
        \/ /\ s.phase = "attStat"
           /\ WalkStat(t, "attMode", next)
        \/ /\ s.phase = "attMode"
           /\ WalkMode(t, next, Return(t, nodes, fids, ErrPerm))
        \/ /\ s.phase = "attSet"
           /\ ~FidLocked(slots, o)
           /\ Step(t, nodes, [fids EXCEPT ![o].node = s.n],
                   [s EXCEPT !.phase = "attUid", !.fl = TRUE])
        \/ /\ s.phase = "attUid"
           /\ Step(t, nodes, [fids EXCEPT ![o].uid = s.uid],
                   [s EXCEPT !.phase = "attQid", !.fl = FALSE])
        \/ /\ s.phase = "attQid"
           /\ ~Held(slots, s.n)
           /\ Return(t, nodes, fids, "")
  /\ UNCHANGED <<fspath, pathmap>>

\* server.Walk and Fid.Walk. No lock covers Fid.New or the node of a fid,
\* so every read and every write of them is a step. The steps: the reads of
\* f.New and of f.node and the assignment New.node = f.node; the read of
\* f.node for walk; for each name the steps of walk, then the read of f.New
\* and the assignment New.node = n, the read of f.New for the call of
\* server.Walk's function, the read of the node of that Fid and node.Stat
\* on it for the reply's qid
DoWalk(t) ==
  /\ Handling(t, Twalk)
  /\ LET s == slots[t]
         tx == s.tx
         o == s.fid
     IN \/ /\ s.phase = "work"
           /\ IF Len(tx.wname) > MAXWELEM
              THEN Return(t, nodes, fids, "too many names in walk")
              ELSE Step(t, nodes, fids, [s EXCEPT !.phase = "walkSrc", !.wf = fids[o].new])
        \/ /\ s.phase = "walkSrc"
           /\ Step(t, nodes, fids, [s EXCEPT !.phase = "walkSet0", !.n = fids[o].node])
        \/ /\ s.phase = "walkSet0"
           /\ Step(t, nodes, [fids EXCEPT ![s.wf].node = s.n],
                   [s EXCEPT !.phase = "walkArg", !.wf = Nil, !.n = Nil])
        \/ /\ s.phase = "walkArg"
           /\ IF Len(tx.wname) = 0
              THEN Return(t, nodes, fids, "")
              ELSE Step(t, nodes, fids,
                        [s EXCEPT !.phase = "walkLook", !.n = fids[o].node,
                                  !.path = tx.wname])
        \/ /\ s.phase = "walkLook"
           /\ Look(t, "walkStat", Return(t, nodes, fids, ErrNotExist))
        \/ /\ s.phase = "walkStat"
           /\ WalkStat(t, "walkMode", "walkNew")
        \/ /\ s.phase = "walkMode"
           /\ WalkMode(t, "walkNew", Return(t, nodes, fids, ErrPerm))
        \/ /\ s.phase = "walkNew"
           /\ Step(t, nodes, fids, [s EXCEPT !.phase = "walkSet", !.wf = fids[o].new])
        \/ /\ s.phase = "walkSet"
           /\ Step(t, nodes, [fids EXCEPT ![s.wf].node = s.n],
                   [s EXCEPT !.phase = "walkNew2", !.wf = Nil])
        \/ /\ s.phase = "walkNew2"
           /\ Step(t, nodes, fids, [s EXCEPT !.phase = "walkNode", !.wf = fids[o].new])
        \/ /\ s.phase = "walkNode"
           /\ Step(t, nodes, fids,
                   [s EXCEPT !.phase = "walkQid", !.par = fids[s.wf].node, !.wf = Nil])
        \/ /\ s.phase = "walkQid"
           /\ ~Held(slots, s.par)
           /\ IF Len(s.path) = 0
              THEN Return(t, nodes, fids, "")
              ELSE Step(t, nodes, fids, [s EXCEPT !.phase = "walkLook", !.par = Nil])
  /\ UNCHANGED <<fspath, pathmap>>

\* Fid.Open: the permission an open mode asks for
OpenPerm(mode) ==
  (IF mode \cap Bits(3) = OREAD THEN DMREAD
   ELSE IF mode \cap Bits(3) = OWRITE THEN DMWRITE
   ELSE IF mode \cap Bits(3) = ORDWR THEN DMREAD \cup DMWRITE
   ELSE {})
  \cup (IF mode \cap OTRUNC # {} THEN DMWRITE ELSE {})

\* node.Open, the first test: an exclusive-use file that is in use
OpenRefused(nd) == nd.mode \cap DMEXCL # {} /\ nd.open


\* node.Open after the first test: the in-use flag of an exclusive-use file
\* and the remove-on-close flag
NodeOpen(nd, mode) ==
  [nd EXCEPT !.open = IF nd.mode \cap DMEXCL # {} /\ ~nd.open THEN TRUE ELSE @,
             !.orclose = IF mode \cap ORCLOSE # {} THEN TRUE ELSE @]

\* Fid.Open sets opened before it calls node.Open; omode, the mode of the
\* last open, is kept for the properties
FidOpened(f, mode) == [f EXCEPT !.opened = TRUE, !.omode = mode]

\* server.Open and Fid.Open. The steps: isOpen (a section of Fid.mu); the
\* reads of f.node and f.uid for HasPerm, and HasPerm (DoHasPerm); Fid.mu is
\* taken, opened set and f.node read; node.Open with Fid.mu held, one step
\* for each of its two reads of the mode; the read of fid.node and
\* node.Stat for the reply's qid. FS.Open calls Fid.Open on a Fid of its own
\* (FsOpen), which is not open
DoOpen(t) ==
  /\ slots[t].tx.type \in {Topen, FsOpenCall}
  /\ Handling(t, slots[t].tx.type)
  /\ LET s == slots[t]
         tx == s.tx
         o == s.fid
         f == fids[o]
         nd == nodes[s.n]
     IN \/ /\ s.phase = "work"
           /\ ~FidLocked(slots, o)
           /\ IF f.opened
              THEN Return(t, nodes, fids, "file already open for I/O")
              ELSE Goto(t, "openNodeRd")
        \/ /\ s.phase = "openNodeRd"
           /\ Step(t, nodes, fids, [s EXCEPT !.phase = "openUidRd", !.n = f.node])
        \/ /\ s.phase = "openUidRd"
           /\ CallPerm(t, [s EXCEPT !.n = Nil], s.n, f.uid, OpenPerm(tx.mode), "openLock")
        \/ /\ s.phase = "openLock"
           /\ ~FidLocked(slots, o)
           /\ Step(t, nodes, [fids EXCEPT ![o] = FidOpened(f, tx.mode)],
                   [s EXCEPT !.phase = "openNode", !.fl = TRUE, !.n = f.node])
        \/ /\ s.phase = "openNode"
           /\ ~Held(slots, s.n)
           /\ IF OpenRefused(nd)
              THEN Back(t, nodes, ErrExcl)
              ELSE Step(t, nodes, fids, [s EXCEPT !.phase = "openFlag", !.hold = s.n])
        \/ /\ s.phase = "openFlag"
           /\ IF tx.type = FsOpenCall
              THEN Back(t, [nodes EXCEPT ![s.n] = NodeOpen(nd, tx.mode)], "")
              ELSE Step(t, [nodes EXCEPT ![s.n] = NodeOpen(nd, tx.mode)],
                        [fids EXCEPT ![o].holds = @ \/ NodeOpen(nd, tx.mode).open # nd.open],
                        [s EXCEPT !.phase = "qidNode", !.fl = FALSE, !.hold = Nil,
                                  !.n = Nil])
        \/ /\ s.phase = "qidNode"
           /\ Step(t, nodes, fids, [s EXCEPT !.phase = "qidStat", !.n = f.node])
        \/ /\ s.phase = "qidStat"
           /\ ~Held(slots, s.n)
           /\ Return(t, nodes, fids, "")
  /\ UNCHANGED <<fspath, pathmap>>

\* node.Create: the permission bits of the new node
CreatePerm(perm, dmode) ==
  IF perm \cap DMDIR # {}
  THEN (perm \ P0777) \cup (dmode \cap P0777)
  ELSE (perm \ P0666) \cup (dmode \cap P0666)

\* FS.newPath: the ids it may return (any recycled id first, else the counter)
NewPathChoices == IF pathmap # {} THEN pathmap ELSE {fspath}

TakePath(p) ==
  IF pathmap # {}
  THEN pathmap' = pathmap \ {p} /\ fspath' = fspath
  ELSE pathmap' = pathmap /\ fspath' = fspath + 1

\* node.Create, a name that is not yet in the directory: the child, with the
\* permission bits perm, is linked
CreateChild(ns, d, i, name, uid, perm, path) ==
  [ns EXCEPT ![i] = newNode(name, uid, ns[d].gid, perm, path, "file", d),
             ![d].children = MapPut(@, name, i)]

\* server.Create, Fid.Create and node.Create. The steps: the reads of f.node
\* and f.uid for HasPerm, and HasPerm (DoHasPerm); the reads of f.node and
\* f.uid for node.Create; its name test and the permission bits, which read
\* the directory's mode before its lock is taken; the directory's lock with
\* the test for a directory; the test for exclusive use; newPath, a section
\* of FS.mu; the lookup of the name and the new entry, after which the lock
\* is released; the assignment to the fid under Fid.mu; the read of fid.node
\* and node.Stat for the reply's qid. FS.Create calls node.Create itself
\* (FsCreate)
DoCreate(t) ==
  /\ slots[t].tx.type \in {Tcreate, FsCreateCall}
  /\ Handling(t, slots[t].tx.type)
  /\ LET s == slots[t]
         tx == s.tx
         o == s.fid
         f == fids[o]
         d == s.n
         nd == nodes[d]
     IN \/ /\ s.phase = "work"
           /\ Step(t, nodes, fids, [s EXCEPT !.phase = "createUidRd", !.n = f.node])
           /\ UNCHANGED <<fspath, pathmap>>
        \/ /\ s.phase = "createUidRd"
           /\ CallPerm(t, [s EXCEPT !.n = Nil], s.n, f.uid, tx.perm, "createArg")
           /\ UNCHANGED <<fspath, pathmap>>
        \/ /\ s.phase = "createArg"
           /\ Step(t, nodes, fids, [s EXCEPT !.phase = "createArg2", !.n = f.node])
           /\ UNCHANGED <<fspath, pathmap>>
        \/ /\ s.phase = "createArg2"
           /\ Step(t, nodes, fids, [s EXCEPT !.phase = "createPerm", !.uid = f.uid])
           /\ UNCHANGED <<fspath, pathmap>>
        \/ /\ s.phase = "createPerm"
           /\ IF tx.name \in {".", ".."}
              THEN Back(t, nodes, "illegal name")
              ELSE Step(t, nodes, fids,
                        [s EXCEPT !.phase = "createLock",
                                  !.tx.perm = CreatePerm(tx.perm, nd.mode)])
           /\ UNCHANGED <<fspath, pathmap>>
        \/ /\ s.phase = "createLock"
           /\ ~Held(slots, d)
           /\ IF ~IsDir(nd)
              THEN Back(t, nodes, "not a directory")
              ELSE Step(t, nodes, fids, [s EXCEPT !.phase = "createExcl", !.hold = d])
           /\ UNCHANGED <<fspath, pathmap>>
        \/ /\ s.phase = "createExcl"
           /\ IF nd.mode \cap DMEXCL # {} /\ nd.open
              THEN Back(t, nodes, ErrExcl)
              ELSE Goto(t, "createPath")
           /\ UNCHANGED <<fspath, pathmap>>
        \/ /\ s.phase = "createPath"
           /\ \E p \in NewPathChoices :
                /\ TakePath(p)
                /\ Step(t, nodes, fids, [s EXCEPT !.phase = "createLink", !.pid = p])
        \/ /\ s.phase = "createLink"
           /\ IF tx.name \in DOMAIN nd.children
              THEN Step(t, nodes, fids,
                        [s EXCEPT !.phase = "createOpen", !.n = nd.children[tx.name],
                                  !.hold = Nil, !.pid = 0])
              ELSE IF nd.kind # "dir"
              THEN Panic
              ELSE \E i \in NodeIds :
                     /\ i > BootNodes /\ ~nodes[i].live
                     /\ \A j \in NodeIds : BootNodes < j /\ j < i => nodes[j].live
                     /\ IF tx.type = FsCreateCall
                        THEN Back(t, CreateChild(nodes, d, i, tx.name, s.uid, tx.perm, s.pid),
                                  "")
                        ELSE Step(t, CreateChild(nodes, d, i, tx.name, s.uid, tx.perm, s.pid),
                                  fids,
                                  [s EXCEPT !.phase = "createSet", !.n = i, !.hold = Nil,
                                            !.pid = 0])
           /\ UNCHANGED <<fspath, pathmap>>
        \/ /\ s.phase = "createSet"
           /\ ~FidLocked(slots, o)
           /\ Step(t, nodes, [fids EXCEPT ![o] = [FidOpened(f, tx.mode) EXCEPT !.node = s.n]],
                   [s EXCEPT !.phase = "qidNode"])
           /\ UNCHANGED <<fspath, pathmap>>
        \/ /\ s.phase = "qidNode"
           /\ Step(t, nodes, fids, [s EXCEPT !.phase = "qidStat", !.n = f.node])
           /\ UNCHANGED <<fspath, pathmap>>
        \/ /\ s.phase = "qidStat"
           /\ ~Held(slots, s.n)
           /\ Return(t, nodes, fids, "")
           /\ UNCHANGED <<fspath, pathmap>>

\* node.Create found the name: the directory's lock is released and
\* node.Open is called on the existing node, one step for each of its two
\* reads of the mode
DoCreateOpen(t) ==
  /\ ~crashed
  /\ LET s == slots[t]
         nd == nodes[s.n]
     IN \/ /\ s.phase = "createOpen"
           /\ ~Held(slots, s.n)
           /\ IF OpenRefused(nd)
              THEN Back(t, nodes, ErrExcl)
              ELSE Step(t, nodes, fids, [s EXCEPT !.phase = "createFlag", !.hold = s.n])
        \/ /\ s.phase = "createFlag"
           /\ IF s.tx.type = FsCreateCall
              THEN Back(t, [nodes EXCEPT ![s.n] = NodeOpen(nd, s.tx.mode)], "")
              ELSE Step(t, [nodes EXCEPT ![s.n] = NodeOpen(nd, s.tx.mode)],
                        [fids EXCEPT ![s.fid].holds =
                                        @ \/ NodeOpen(nd, s.tx.mode).open # nd.open],
                        [s EXCEPT !.phase = "createSet", !.hold = Nil])
  /\ UNCHANGED <<fspath, pathmap>>

\* group.ReadAt: the error (the data is the marshalled group database)
GroupReadErr(g, offset) ==
  IF offset < 0 THEN "negative offset"
  ELSE IF offset > GroupLen(g) THEN "EOF" ELSE ""

\* node.ReadAt after the test for a directory: the error of the buffer's
\* ReadAt, or "panic". A node made as a directory has no buffer (node.file
\* is nil)
NodeReadErr(g, nd, len, offset) ==
  IF nd.kind = "dir" THEN "panic"
  ELSE IF nd.kind = "ctl" THEN "reading ctl file"
  ELSE IF nd.kind = "group" THEN GroupReadErr(g, offset)
  ELSE FileReadAt(nd.file, BLOCKSIZE, len, offset).err

\* server.Read and Fid.ReadAt (the bytes read and Fid.buf, the rest of a
\* directory listing, are not state). The steps: the read of fid.node and
\* node.Stat, for the limit on the count of a directory read; isOpen; the
\* read of f.node, node.Stat, and the read of the mode; then for a
\* directory read at offset 0 the read of f.node and node.Readdir, a
\* section of the node's lock; else the read of f.node and node.ReadAt,
\* which takes the node's lock with the test for a directory and then reads
\* the buffer
DoRead(t) ==
  /\ Handling(t, Tread)
  /\ LET s == slots[t]
         tx == s.tx
         f == fids[s.fid]
         nd == nodes[s.n]
         e == NodeReadErr(groupmap, nd, tx.count, tx.offset)
     IN \/ /\ s.phase = "work"
           /\ Step(t, nodes, fids, [s EXCEPT !.phase = "readStat0", !.n = f.node])
        \/ /\ s.phase = "readStat0"
           /\ ~Held(slots, s.n)
           /\ Step(t, nodes, fids, [s EXCEPT !.phase = "readOpen", !.n = Nil])
        \/ /\ s.phase = "readOpen"
           /\ ~FidLocked(slots, s.fid)
           /\ IF ~f.opened
              THEN Return(t, nodes, fids, ErrNotOpen)
              ELSE Goto(t, "readNodeRd")
        \/ /\ s.phase = "readNodeRd"
           /\ Step(t, nodes, fids, [s EXCEPT !.phase = "readStat", !.n = f.node])
        \/ /\ s.phase = "readStat"
           /\ ~Held(slots, s.n)
           /\ Goto(t, "readMode")
        \/ /\ s.phase = "readMode"
           /\ IF ~IsDir(nd)
              THEN Step(t, nodes, fids, [s EXCEPT !.phase = "readNodeRd2", !.n = Nil])
              ELSE IF tx.offset = 0
              THEN Step(t, nodes, fids, [s EXCEPT !.phase = "readDirRd", !.n = Nil])
              ELSE Return(t, nodes, fids, "")
        \/ /\ s.phase = "readDirRd"
           /\ Step(t, nodes, fids, [s EXCEPT !.phase = "readDir", !.n = f.node])
        \/ /\ s.phase = "readDir"
           /\ ~Held(slots, s.n)
           /\ Return(t, nodes, fids, IF ~IsDir(nd) THEN "not a directory" ELSE "")
        \/ /\ s.phase = "readNodeRd2"
           /\ Step(t, nodes, fids, [s EXCEPT !.phase = "readNode", !.n = f.node])
        \/ /\ s.phase = "readNode"
           /\ ~Held(slots, s.n)
           /\ IF IsDir(nd)
              THEN Return(t, nodes, fids, "is a directory")
              ELSE Step(t, nodes, fids, [s EXCEPT !.phase = "readBuf", !.hold = s.n])
        \/ /\ s.phase = "readBuf"
           /\ IF e = "panic" THEN Panic ELSE Return(t, nodes, fids, e)
  /\ UNCHANGED <<fspath, pathmap>>

\* node.WriteAt, lines 475-477, counting writes to temporary files as well
Written_CountsTmp(nd) == [nd EXCEPT !.vers = @ + 1]

\* node.WriteAt, lines 475-477: the version goes up unless the mode has the
\* temporary bit
Written(nd) == [nd EXCEPT !.vers = IF nd.mode \cap DMTMP = {} THEN @ + 1 ELSE @]

\* node.WriteAt on a regular file, lines 466-474: [err, node]
NodeWriteAt(nd, p, off) ==
  LET w == FileWriteAt(nd.file, BLOCKSIZE, p, off)
  IN IF w.err # "" THEN [err |-> w.err, node |-> nd]
     ELSE [err |-> "", node |-> [nd EXCEPT !.file = w.file, !.length = w.file.size]]

\* server.Write, Fid.WriteAt and node.WriteAt but for the write to the
\* buffer of /adm/group. The steps: isOpen; the read of f.node, node.Stat
\* and the read of the mode; the read of f.node for node.WriteAt; the
\* node's lock with the test for a directory; the read of the mode for the
\* append bit; the write to the buffer; the read of the mode for the
\* temporary bit, with the version. A listen command to /adm/ctl starts
\* FS.Listen on another address, which changes nothing for this connection;
\* the buffers of /adm/ctl and /adm/group have length 0
DoWrite(t) ==
  /\ Handling(t, Twrite)
  /\ LET s == slots[t]
         tx == s.tx
         f == fids[s.fid]
         nd == nodes[s.n]
         w == NodeWriteAt(nd, tx.data, s.off)
         c == CtlWriteAt(tx.data)
     IN \/ /\ s.phase = "work"
           /\ ~FidLocked(slots, s.fid)
           /\ IF ~f.opened
              THEN Return(t, nodes, fids, ErrNotOpen)
              ELSE Goto(t, "writeNodeRd")
        \/ /\ s.phase = "writeNodeRd"
           /\ Step(t, nodes, fids, [s EXCEPT !.phase = "writeStat", !.n = f.node])
        \/ /\ s.phase = "writeStat"
           /\ ~Held(slots, s.n)
           /\ Goto(t, "writeMode")
        \/ /\ s.phase = "writeMode"
           /\ IF IsDir(nd)
              THEN Return(t, nodes, fids, "is a directory")
              ELSE Step(t, nodes, fids, [s EXCEPT !.phase = "writeNodeRd2", !.n = Nil])
        \/ /\ s.phase = "writeNodeRd2"
           /\ Step(t, nodes, fids, [s EXCEPT !.phase = "writeNode", !.n = f.node])
        \/ /\ s.phase = "writeNode"
           /\ ~Held(slots, s.n)
           /\ IF IsDir(nd)
              THEN Return(t, nodes, fids, "is a directory")
              ELSE Step(t, nodes, fids, [s EXCEPT !.phase = "writeAppend", !.hold = s.n])
        \/ /\ s.phase = "writeAppend"
           /\ IF nd.mode \cap DMAPPEND = {}
              THEN Step(t, nodes, fids, [s EXCEPT !.phase = "writeBuf", !.off = tx.offset])
              ELSE IF nd.kind = "dir"
              THEN Panic
              ELSE Step(t, nodes, fids,
                        [s EXCEPT !.phase = "writeBuf",
                                  !.off = IF nd.kind = "file" THEN nd.file.size ELSE 0])
        \/ /\ s.phase = "writeBuf"
           /\ nd.kind \in {"dir", "file", "ctl"}
           /\ IF nd.kind = "dir"
              THEN Panic
              ELSE IF nd.kind = "ctl"
              THEN IF c # ""
                   THEN Return(t, nodes, fids, c)
                   ELSE Step(t, [nodes EXCEPT ![s.n].length = 0], fids,
                             [s EXCEPT !.phase = "writeVers"])
              ELSE IF w.err = "panic"
              THEN Panic
              ELSE IF w.err # ""
              THEN Return(t, nodes, fids, w.err)
              ELSE Step(t, [nodes EXCEPT ![s.n] = w.node], fids,
                        [s EXCEPT !.phase = "writeVers"])
        \/ /\ s.phase = "writeVers"
           /\ Return(t, [nodes EXCEPT ![s.n] = Written(nd)], fids, "")
  /\ UNCHANGED <<fspath, pathmap>>

\* node.WriteAt on /adm/group, the write to the buffer: group.WriteAt, a
\* section of the group file's lock; the data is a command
DoWriteGroup(t) ==
  /\ Handling(t, Twrite)
  /\ LET s == slots[t]
         w == GroupWriteAt(groupmap, s.tx.data)
     IN /\ s.phase = "writeBuf"
        /\ nodes[s.n].kind = "group"
        /\ IF w.err # ""
           THEN Return(t, nodes, fids, w.err)
           ELSE /\ Commit([nodes EXCEPT ![s.n].length = 0], fids, fidmap,
                          [slots EXCEPT ![t] = [s EXCEPT !.phase = "writeVers"]])
                /\ groupmap' = w.g
                /\ UNCHANGED <<cuid, reply, cio, crashed>>
  /\ UNCHANGED <<fspath, pathmap>>

\* node.Close, line 414: the exclusive-use flag is released
NodeClose(nd) == [nd EXCEPT !.open = IF nd.mode \cap DMEXCL # {} /\ nd.open THEN FALSE ELSE @]

\* node.Close: does it go on to node.remove
CloseRemoves(nd) == nd.orclose

\* node.remove refuses a directory with children
NotEmpty(nd) == IsDir(nd) /\ DOMAIN nd.children # {}

\* node.Close or node.Remove returns to the place that called it, with its
\* locks released: Fid.Close to server.Clunk, which answers without an
\* error; Fid.Remove to server.Remove, which goes on to the clunk; the
\* deferred dir.Close to the caller of FS.Create
Finish(t, ns, fs) ==
  LET s == slots[t]
  IN IF s.next = "idle" THEN End(t, ns, fs)
     ELSE IF s.next = "post" THEN Return(t, ns, fs, "")
     ELSE Step(t, ns, fs, [IdleSlot EXCEPT !.phase = "clunk", !.tx = s.tx, !.fid = s.fid])

\* server.Clunk and Fid.Close up to node.Close, also the second half of
\* server.Remove; errors are ignored. The steps: isOpen; the read of f.node
\* and the one of its mode, for the bit ORCLOSE names (0100); with that bit
\* the read of f.node for the parent, the reads of f.node and f.uid for
\* HasPerm on the node (DoHasPerm), the read of f.uid for HasPerm on the
\* parent; Fid.mu is taken, opened cleared and f.node read for node.Close
DoClunk(t) ==
  /\ ~crashed
  /\ slots[t].tx.type \in {Tclunk, Tremove}
  /\ LET s == slots[t]
         o == s.fid
         f == fids[o]
     IN \/ /\ \/ s.phase = "work" /\ s.tx.type = Tclunk
              \/ s.phase = "clunk"
           /\ ~FidLocked(slots, o)
           /\ IF ~f.opened
              THEN Return(t, nodes, fids, "")
              ELSE Goto(t, "closeNodeRd")
        \/ /\ s.phase = "closeNodeRd"
           /\ Step(t, nodes, fids, [s EXCEPT !.phase = "closeMode", !.n = f.node])
        \/ /\ s.phase = "closeMode"
           /\ Step(t, nodes, fids,
                   [s EXCEPT !.phase = IF nodes[s.n].mode \cap ORCLOSE = {}
                                       THEN "closeLock" ELSE "closePar",
                             !.n = Nil])
        \/ /\ s.phase = "closePar"
           /\ Step(t, nodes, fids,
                   [s EXCEPT !.phase = "closeNodeRd2", !.par = nodes[f.node].parent])
        \/ /\ s.phase = "closeNodeRd2"
           /\ Step(t, nodes, fids, [s EXCEPT !.phase = "closeUid", !.n = f.node])
        \/ /\ s.phase = "closeUid"
           /\ CallPerm(t, [s EXCEPT !.n = Nil], s.n, f.uid, DMWRITE, "closeUid2")
        \/ /\ s.phase = "closeUid2"
           /\ CallPerm(t, [s EXCEPT !.par = Nil], s.par, f.uid, DMWRITE, "closeLock")
        \/ /\ s.phase = "closeLock"
           /\ ~FidLocked(slots, o)
           /\ Step(t, nodes, [fids EXCEPT ![o].opened = FALSE, ![o].holds = FALSE],
                   [s EXCEPT !.phase = "closeNode", !.fl = TRUE, !.n = f.node,
                             !.next = "post"])
  /\ UNCHANGED <<fspath, pathmap>>

\* node.Close up to node.remove's parent lock, as Fid.Close calls it with
\* Fid.mu held and as the deferred dir.Close of FS.Create calls it. The
\* steps: the node's lock with the first read of the mode, for the
\* exclusive-use flag; the second read of the mode, for the buffer's Close,
\* which a node made as a directory has none of; with the remove-on-close
\* flag the start of node.remove, which reads the mode once more
DoClose(t) ==
  /\ ~crashed
  /\ LET s == slots[t]
         n == s.n
         nd == nodes[n]
     IN \/ /\ s.phase = "closeNode"
           /\ ~Held(slots, n)
           /\ Step(t, [nodes EXCEPT ![n] = NodeClose(nd)], fids,
                   [s EXCEPT !.phase = "closeFile", !.hold = n])
        \/ /\ s.phase = "closeFile"
           /\ IF ~IsDir(nd) /\ nd.kind = "dir"
              THEN Panic
              ELSE IF CloseRemoves(nd)
              THEN Goto(t, "rmCheck")
              ELSE Finish(t, nodes, fids)
        \/ /\ s.phase = "rmCheck"
           /\ IF NotEmpty(nd) THEN Finish(t, nodes, fids) ELSE Goto(t, "rmParent")
  /\ UNCHANGED <<fspath, pathmap>>

\* server.Remove and Fid.Remove up to node.remove's parent lock; the clunk
\* follows whatever the remove did. The steps: isOpen; the read of f.node
\* for the parent; the reads of f.node and f.uid for HasPerm on the node
\* (DoHasPerm); the read of f.uid for HasPerm on the parent; the read of
\* f.node for node.Remove; node.Remove takes the node's lock and node.remove
\* reads the mode
DoRemove(t) ==
  /\ Handling(t, Tremove)
  /\ LET s == slots[t]
         f == fids[s.fid]
         toClunk == Step(t, nodes, fids, [s EXCEPT !.phase = "clunk", !.n = Nil])
     IN \/ /\ s.phase = "work"
           /\ ~FidLocked(slots, s.fid)
           /\ IF ~f.opened THEN toClunk ELSE Goto(t, "removePar")
        \/ /\ s.phase = "removePar"
           /\ Step(t, nodes, fids,
                   [s EXCEPT !.phase = "removeNodeRd", !.par = nodes[f.node].parent])
        \/ /\ s.phase = "removeNodeRd"
           /\ Step(t, nodes, fids, [s EXCEPT !.phase = "removeUid", !.n = f.node])
        \/ /\ s.phase = "removeUid"
           /\ CallPerm(t, [s EXCEPT !.n = Nil], s.n, f.uid, DMWRITE, "removeUid2")
        \/ /\ s.phase = "removeUid2"
           /\ CallPerm(t, [s EXCEPT !.par = Nil], s.par, f.uid, DMWRITE, "removeNodeRd2")
        \/ /\ s.phase = "removeNodeRd2"
           /\ Step(t, nodes, fids, [s EXCEPT !.phase = "removeNode", !.n = f.node])
        \/ /\ s.phase = "removeNode"
           /\ ~Held(slots, s.n)
           /\ IF NotEmpty(nodes[s.n])
              THEN toClunk
              ELSE Step(t, nodes, fids,
                        [s EXCEPT !.phase = "rmParent", !.hold = s.n, !.next = "clunk"])
  /\ UNCHANGED <<fspath, pathmap>>

\* node.remove under the parent's lock: the entry under the node's name goes
Detach(ns, n) ==
  LET par == ns[n].parent
  IN [ns EXCEPT ![par].children = MapDel(@, ns[n].name)]

\* FS.delPath
delPath(pm, path) == pm \cup {path}

\* node.remove from parent.mu.Lock on, with the node's own lock held (and
\* Fid.mu, when Fid.Close called): the section of the parent's lock, then
\* delPath, a section of FS.mu, when an entry was deleted
NodeRemove(t) ==
  /\ ~crashed
  /\ LET s == slots[t]
         n == s.hold
         par == nodes[n].parent
     IN \/ /\ s.phase = "rmParent"
           /\ ~Held(slots, par)
           /\ IF Attached(nodes, n)
              THEN Step(t, Detach(nodes, n), fids, [s EXCEPT !.phase = "rmPath"])
              ELSE Finish(t, nodes, fids)
           /\ UNCHANGED pathmap
        \/ /\ s.phase = "rmPath"
           /\ pathmap' = delPath(pathmap, nodes[n].path)
           /\ Finish(t, nodes, fids)
  /\ UNCHANGED fspath

\* node.Wstat: which fields of the request ask for a change
ModeCh(nd, dir) == dir.mode # AllOnes /\ dir.mode # nd.mode
NameCh(nd, dir) == dir.name # "" /\ dir.name # nd.name
GidCh(nd, dir) == dir.gid # "" /\ dir.gid # nd.gid

\* node.Wstat, the new mode
WstatMode(old, req) ==
  IF req \cap DMDIR # {}
  THEN (req \ P0777) \cup (old \cap P0777)
  ELSE (req \ P0666) \cup (old \cap P0666)

\* server.Wstat, Fid.Wstat and the checks of node.Wstat, which take no lock
\* but the parent's for the lookup of the new name. The steps: the reads of
\* f.node and of f.uid; the read of the mode, and for a new mode the read
\* of the group when the user is not the owner, which never changes; the
\* read of the name, and for a new name HasPerm on the parent (DoHasPerm)
\* and the lookup of the new name in a section of the parent's lock; the
\* read of the group, and for a new group a second read of it, group.Get
\* and the read of the member map, which is the map of the database itself
DoWstat(t) ==
  /\ Handling(t, Twstat)
  /\ LET s == slots[t]
         f == fids[s.fid]
         dir == s.tx.stat
         n == s.n
         nd == nodes[n]
     IN \/ /\ s.phase = "work"
           /\ Step(t, nodes, fids, [s EXCEPT !.phase = "wsUid", !.n = f.node])
        \/ /\ s.phase = "wsUid"
           /\ Step(t, nodes, fids, [s EXCEPT !.phase = "wsMode", !.uid = f.uid])
        \/ /\ s.phase = "wsMode"
           /\ Goto(t, IF ModeCh(nd, dir) /\ s.uid # nd.uid THEN "wsOwner" ELSE "wsParent")
        \/ /\ s.phase = "wsOwner"
           /\ IF s.uid # nd.gid
              THEN Return(t, nodes, fids, "not owner")
              ELSE Goto(t, "wsParent")
        \/ /\ s.phase = "wsParent"
           /\ IF NameCh(nd, dir)
              THEN CallPerm(t, [s EXCEPT !.par = nd.parent], nd.parent, s.uid, DMWRITE,
                            "wsExists")
              ELSE Step(t, nodes, fids, [s EXCEPT !.phase = "wsGroup", !.par = nd.parent])
        \/ /\ s.phase = "wsExists"
           /\ ~Held(slots, s.par)
           /\ IF dir.name \in DOMAIN nodes[s.par].children
              THEN Return(t, nodes, fids, "file exists")
              ELSE Goto(t, "wsGroup")
        \/ /\ s.phase = "wsGroup"
           /\ Goto(t, IF GidCh(nd, dir) THEN "wsGetGid" ELSE "wsCommit")
        \/ /\ s.phase = "wsGetGid"
           /\ Step(t, nodes, fids, [s EXCEPT !.phase = "wsGet", !.hp.hgid = nd.gid])
        \/ /\ s.phase = "wsGet"
           /\ IF s.hp.hgid \notin DOMAIN groupmap THEN Panic ELSE Goto(t, "wsMember")
        \/ /\ s.phase = "wsMember"
           /\ \/ MemberRace(t, s.hp.hgid) /\ Panic
              \/ IF s.uid \notin groupmap[s.hp.hgid].members
                 THEN Return(t, nodes, fids, "not owner")
                 ELSE Step(t, nodes, fids, [s EXCEPT !.phase = "wsCommit", !.hp = NoPerm])
  /\ UNCHANGED <<fspath, pathmap>>

\* node.Wstat, "all ok; do it", but for the rename. No lock covers the
\* mode: the steps are the read of the mode for the test, the read for the
\* new value and the assignment; then the read of the name for the test
\* (WstatName goes on from there for a new name); the read of the group for
\* the test and for a new group the assignment in a section of the node's
\* lock
WstatCommit(t) ==
  /\ Handling(t, Twstat)
  /\ LET s == slots[t]
         n == s.n
         nd == nodes[n]
         dir == s.tx.stat
     IN \/ /\ s.phase = "wsCommit"
           /\ Goto(t, IF ModeCh(nd, dir) THEN "wsModeRd" ELSE "wsRename")
        \/ /\ s.phase = "wsModeRd"
           /\ Step(t, nodes, fids,
                   [s EXCEPT !.phase = "wsModeWr", !.m = WstatMode(nd.mode, dir.mode)])
        \/ /\ s.phase = "wsModeWr"
           /\ Step(t, [nodes EXCEPT ![n].mode = s.m], fids,
                   [s EXCEPT !.phase = "wsRename", !.m = {}])
        \/ /\ s.phase = "wsRename"
           /\ Goto(t, IF NameCh(nd, dir) THEN "wsUnlink" ELSE "wsGid")
        \/ /\ s.phase = "wsGid"
           /\ IF GidCh(nd, dir) THEN Goto(t, "wsGidSet") ELSE Return(t, nodes, fids, "")
        \/ /\ s.phase = "wsGidSet"
           /\ ~Held(slots, n)
           /\ Return(t, [nodes EXCEPT ![n].gid = dir.gid], fids, "")
  /\ UNCHANGED <<fspath, pathmap>>

\* node.Wstat, the entry under the old name goes
Unlink(ns, n, par) == [ns EXCEPT ![par].children = MapDel(@, ns[n].name)]

\* the assignment to n.dir.Name left out
SetName_Keep(ns, n, name) == ns

\* node.Wstat, the assignment to n.dir.Name
SetName(ns, n, name) == [ns EXCEPT ![n].name = name]

\* node.Wstat, the entry under the new name
Link(ns, n, par, name) == [ns EXCEPT ![par].children = MapPut(@, name, n)]

\* node.Wstat, the rename. The steps: the parent's lock is taken and the
\* entry under the old name deleted; with the parent's lock held the new
\* name is assigned in a section of the node's lock; the entry under the
\* new name is made and the parent's lock released
WstatName(t) ==
  /\ Handling(t, Twstat)
  /\ LET s == slots[t]
     IN \/ /\ s.phase = "wsUnlink"
           /\ ~Held(slots, s.par)
           /\ Step(t, Unlink(nodes, s.n, s.par), fids,
                   [s EXCEPT !.phase = "wsName", !.hold = s.par])
        \/ /\ s.phase = "wsName"
           /\ ~Held(slots, s.n)
           /\ Step(t, SetName(nodes, s.n, s.tx.stat.name), fids,
                   [s EXCEPT !.phase = "wsLink"])
        \/ /\ s.phase = "wsLink"
           /\ Step(t, Link(nodes, s.n, s.hold, s.tx.stat.name), fids,
                   [s EXCEPT !.phase = "wsGid", !.hold = Nil])
  /\ UNCHANGED <<fspath, pathmap>>

(* ------------------- FS.Open, FS.Create, FS.Remove -------------------- *)
\* the embedding program calls the package: the caller's goroutine starts
Call(t, tx) ==
  /\ ~crashed
  /\ slots[t].phase = "idle"
  /\ Room(tx)
  /\ slots' = [slots EXCEPT ![t] = [IdleSlot EXCEPT !.phase = "fsGet", !.tx = tx]]
  /\ UNCHANGED <<fsVars, connVars, reply, cio, crashed, ftest, wtest>>

\* the start of FS.Open, FS.Create and FS.Remove: group.Get(fs.hostowner),
\* which panics when there is no such user, then FS.walk from the root with
\* the steps of walk. A walk that fails ends the call
FsWalkSteps(t) ==
  LET s == slots[t]
      next == IF Len(s.path) = 0 THEN "fsNode" ELSE "fsLook"
  IN \/ /\ s.phase = "fsGet"
        /\ IF HostOwner \notin DOMAIN groupmap
           THEN Panic
           ELSE Step(t, nodes, fids,
                     [s EXCEPT !.phase = IF Len(s.tx.aname) = 0 THEN "fsNode" ELSE "fsLook",
                               !.uid = HostOwner, !.n = RootId, !.path = s.tx.aname])
     \/ /\ s.phase = "fsLook"
        /\ Look(t, "fsStat", End(t, nodes, fids))
     \/ /\ s.phase = "fsStat"
        /\ WalkStat(t, "fsMode", next)
     \/ /\ s.phase = "fsMode"
        /\ WalkMode(t, next, End(t, nodes, fids))

\* FS.Open: a Fid of the host owner on the node found, which no map holds,
\* and Fid.Open on it (DoOpen; isOpen on the new Fid is false)
FsOpen(t) ==
  /\ ~crashed
  /\ slots[t].tx.type = FsOpenCall
  /\ LET s == slots[t]
         o == FreeFidObj(fids)
     IN \/ FsWalkSteps(t)
        \/ /\ s.phase = "fsNode"
           /\ Step(t, nodes,
                   [fids EXCEPT ![o] = [FreeFid EXCEPT !.live = TRUE, !.uid = s.uid,
                                                       !.node = s.n]],
                   [s EXCEPT !.phase = "openNodeRd", !.fid = o, !.n = Nil])
  /\ UNCHANGED <<fspath, pathmap>>

\* FS.Create: aname names the directory, name the file. node.Create is
\* called on the directory without a permission test (DoCreate from the
\* name test on), and the deferred dir.Close runs node.Close on the
\* directory (DoClose) when node.Create has returned
FsCreate(t) ==
  /\ ~crashed
  /\ slots[t].tx.type = FsCreateCall
  /\ LET s == slots[t]
     IN \/ FsWalkSteps(t)
        \/ /\ s.phase = "fsNode"
           /\ Step(t, nodes, fids, [s EXCEPT !.phase = "createPerm", !.par = s.n])
  /\ UNCHANGED <<fspath, pathmap>>

\* FS.Remove: Fid.Remove on a Fid that was never opened returns "file not
\* open for I/O" and removes nothing
FsRemove(t) ==
  /\ ~crashed
  /\ slots[t].tx.type = FsRemoveCall
  /\ \/ FsWalkSteps(t)
     \/ slots[t].phase = "fsNode" /\ End(t, nodes, fids)
  /\ UNCHANGED <<fspath, pathmap>>

(* ------------------------------ the client ---------------------------- *)
Names == {"x", "y"}
F0664 == Bits(436)

Tx(type, fid) == [TxBase EXCEPT !.type = type, !.fid = fid]
TxCreate(f, n, p, m) == [Tx(Tcreate, f) EXCEPT !.name = n, !.perm = p, !.mode = m]
TxWalk(f, g, w) == [Tx(Twalk, f) EXCEPT !.newfid = g, !.wname = w]
TxOpen(f, m) == [Tx(Topen, f) EXCEPT !.mode = m]
TxAttach(f, u) == [Tx(Tattach, f) EXCEPT !.uname = u]
TxWrite(f) == [Tx(Twrite, f) EXCEPT !.data = <<1>>]
TxWriteAt(f, p, off) == [Tx(Twrite, f) EXCEPT !.data = p, !.offset = off]
TxRead(f, off, n) == [Tx(Tread, f) EXCEPT !.offset = off, !.count = n]
TxFs(type, path, name, m, p) ==
  [TxBase EXCEPT !.type = type, !.aname = path, !.name = name, !.mode = m, !.perm = p]
TxWstat(f, st) == [Tx(Twstat, f) EXCEPT !.stat = st]

Quiet == \A t \in Tags : slots[t].phase = "idle"

\* the calls of the embedding program: an open of the root, a create of /x
\* and a remove of /x
LocalCalls ==
  {TxFs(FsOpenCall, <<>>, "", OREAD, {}), TxFs(FsCreateCall, <<>>, "x", OREAD, F0664),
   TxFs(FsRemoveCall, <<"x">>, "", {}, {})}

(* One client that waits for each reply: every path through conn.proc. The *)
(* embedding program makes its calls before the first request is answered, *)
(* and the client sends what needs no fid before it attaches. Fid 0 is the *)
(* root, fid 1 /x, fid 2 /adm/group                                        *)
Client ==
  \/ \E tx \in
            {[Tx(Tversion, 0) EXCEPT !.msize = m] : m \in {0, 8192}}
       \cup {Tx(Tauth, 0), Tx(Tflush, 0), Tx(Rversion, 0)} :
         Quiet /\ fidmap[0] = Nil /\ Recv(0, tx)
  \/ \E tx \in
            {TxAttach(0, "adm"), Tx(Tstat, 0),
             TxWalk(0, 1, <<"x">>), TxWalk(0, 2, <<"adm", "group">>)}
       \cup {TxOpen(f, OREAD) : f \in 1..2}
       \cup {Tx(Tclunk, 1), Tx(Tremove, 1)}
       \cup {TxCreate(0, ".", F0664, OREAD), TxWrite(0), TxRead(1, 0, 1),
             TxWstat(1, [NoStat EXCEPT !.name = "y"])} :
         Quiet /\ Recv(0, tx)
  \/ Quiet /\ Recv(0, TxWriteAt(2, "uname gnot gnot", 0))
  \/ \E tx \in LocalCalls : Quiet /\ reply[0] = NoReply /\ Call(1, tx)

Server ==
  \E t \in Tags :
    \/ ProcPre(t) \/ ProcRef(t) \/ ProcPost(t) \/ ProcDelFid(t)
    \/ DoVersion(t) \/ DoAuth(t) \/ DoFlush(t) \/ DoBadFcall(t) \/ DoStat(t)
    \/ DoAttach(t) \/ DoWalk(t) \/ DoOpen(t) \/ DoCreate(t) \/ DoCreateOpen(t)
    \/ DoHasPerm(t) \/ DoRead(t) \/ DoWrite(t) \/ DoWriteGroup(t)
    \/ DoClunk(t) \/ DoClose(t) \/ DoRemove(t) \/ NodeRemove(t)
    \/ DoWstat(t) \/ WstatCommit(t) \/ WstatName(t)
    \/ FsOpen(t) \/ FsCreate(t) \/ FsRemove(t)

Next == Client \/ Server

Spec == Init /\ [][Next]_vars

(* Creates and clunks through two fids, every open with remove-on-close *)
SpecPath ==
  Init /\ [][\/ (
                \E tx \in
                     {TxCreate(f, n, F0664, ORCLOSE) : f \in 0..1, n \in Names}
                \cup {Tx(Tclunk, f) : f \in 0..1} :
                  Quiet /\ Recv(0, tx))
             \/ (
                \E t \in Tags :
                  \/ ProcPre(t) \/ ProcRef(t) \/ ProcPost(t) \/ ProcDelFid(t)
                  \/ DoHasPerm(t) \/ DoCreate(t) \/ DoCreateOpen(t)
                  \/ DoClunk(t) \/ DoClose(t) \/ NodeRemove(t))]_vars

(* An exclusive-use file, opened and clunked through three fids *)
SpecExcl ==
  Init /\ [][\/ (
                \E tx \in
                     {TxCreate(0, "x", F0664 \cup DMEXCL, OREAD), TxWalk(1, 2, <<"x">>)}
                \cup {TxWalk(0, g, <<"x">>) : g \in 1..2}
                \cup {TxOpen(g, OREAD) : g \in 1..2}
                \cup {Tx(Tclunk, f) : f \in FidNums} :
                  Quiet /\ Recv(0, tx))
             \/ (
                \E t \in Tags :
                  \/ ProcPre(t) \/ ProcRef(t) \/ ProcPost(t) \/ ProcDelFid(t)
                  \/ DoWalk(t) \/ DoHasPerm(t) \/ DoOpen(t) \/ DoCreate(t) \/ DoCreateOpen(t)
                  \/ DoClunk(t) \/ DoClose(t))]_vars

(* Users none and adm: open modes, reads, writes and removals *)
SpecPerm ==
  Init /\ [][\/ (
                \E tx \in
                     {TxAttach(0, "adm"), TxCreate(0, "x", F0664, OREAD), TxWalk(0, 1, <<"x">>)}
                \cup {TxOpen(1, m) : m \in {OREAD, ORCLOSE}}
                \cup {TxWrite(1), TxRead(1, 0, 1)}
                \cup {Tx(Tclunk, 0), Tx(Tclunk, 1), Tx(Tremove, 1)} :
                  Quiet /\ Recv(0, tx))
             \/ (
                \E t \in Tags :
                  \/ ProcPre(t) \/ ProcRef(t) \/ ProcPost(t) \/ ProcDelFid(t)
                  \/ DoAttach(t) \/ DoWalk(t) \/ DoHasPerm(t) \/ DoOpen(t) \/ DoCreate(t)
                  \/ DoCreateOpen(t) \/ DoRead(t) \/ DoWrite(t) \/ DoClunk(t) \/ DoClose(t)
                  \/ DoRemove(t) \/ NodeRemove(t))]_vars

(* Two requests in flight at a time: creates, renames and removals by adm *)
SpecConc ==
  Init /\ [][\/ (
                \E t \in Tags :
                  \E tx \in
                    IF t = 0
                    THEN {TxAttach(0, "adm"), TxCreate(0, "x", F0664, ORCLOSE),
                          TxWstat(0, [NoStat EXCEPT !.name = "y"])}
                    ELSE {TxCreate(1, "x", F0664, ORCLOSE), Tx(Tremove, 1)} :
                    Recv(t, tx))
             \/ (
                \E t \in Tags :
                  \/ ProcPre(t) \/ ProcRef(t) \/ ProcPost(t) \/ ProcDelFid(t)
                  \/ DoAttach(t) \/ DoHasPerm(t) \/ DoCreate(t) \/ DoCreateOpen(t)
                  \/ DoClunk(t) \/ DoClose(t) \/ DoRemove(t) \/ NodeRemove(t)
                  \/ DoWstat(t) \/ WstatCommit(t) \/ WstatName(t))]_vars

(* ------------------------------ properties ---------------------------- *)
\* the nodes a walk from the root can name
RECURSIVE Descend(_, _)
Descend(S, k) ==
  IF k = 0 THEN S
  ELSE Descend(S \cup UNION {{nodes[i].children[c] : c \in DOMAIN nodes[i].children} : i \in S},
               k - 1)

TreeNodes == Descend({RootId}, MaxNodes)

\* the fids of the map that have node i open
Openers(i) ==
  {k \in FidNums : fidmap[k] # Nil /\ fids[fidmap[k]].node = i /\ fids[fidmap[k]].opened}

\* C1: every request read from the stream gets its reply: the process never
\* stops while a request is in flight, and a reply that was written has type
\* Rerror or request type + 1.
C1_EveryRequestAnswered ==
  \A t \in Tags :
    /\ (slots[t].phase # "idle" /\ slots[t].tx.type \in 0..255) => ~crashed
    /\ reply[t] # NoReply =>
         reply[t].type \in {Rerror} \cup {ty + 1 : ty \in KnownTypes}

\* C2: a request whose handler returned an error is answered with an Rerror
\* that carries the handler's text, and the process does not crash on it:
\* no step of conn.proc after the handler crashes, and the step that writes
\* the reply writes that Rerror.
C2_ErrorsAreAnswered ==
  [][\A t \in Tags :
       (slots[t].phase \in {"post", "dec", "del", "delRef", "out"} /\ slots[t].err # "")
         => /\ ~crashed'
            /\ slots'[t].phase = "idle"
                 => reply'[t] = [type |-> Rerror, ename |-> slots[t].err]]_vars

\* C3: when a clunk or a remove on fid number f is answered and no other
\* request on f is in flight, f is no longer in the fid map.
C3_ClunkedFidIsGone ==
  [][\A t \in Tags :
       (/\ slots[t].phase = "out"
        /\ slots'[t].phase = "idle"
        /\ slots[t].tx.type \in {Tclunk, Tremove}
        /\ \A u \in Tags \ {t} :
             slots[u].phase = "idle" \/ slots[u].tx.fid # slots[t].tx.fid)
         => fidmap'[slots[t].tx.fid] = Nil]_vars

\* C4: for every directory d and every child name n, d.children[n].parent is
\* d and d.children[n].name is n.
C4_ChildrenLinked ==
  \A d \in NodeIds :
    nodes[d].live =>
      \A n \in DOMAIN nodes[d].children :
        LET c == nodes[d].children[n]
        IN nodes[c].live /\ nodes[c].parent = d /\ nodes[c].name = n

\* a rename and a create have both linked a node into the root, and a node
\* that was removed is still referred to by a fid
C4_Witness ==
  /\ {"x", "y"} \subseteq DOMAIN nodes[RootId].children
  /\ \E i \in NodeIds : nodes[i].live /\ i \notin TreeNodes

\* C5: any two distinct nodes present in the tree have different path ids.
C5_PathIdsUnique ==
  \A i \in TreeNodes : \A j \in TreeNodes : i # j => nodes[i].path # nodes[j].path

\* C6: a node with the exclusive-use bit is open through at most one fid,
\* in every state in which no request is being served.
C6_OneExclusiveOpener ==
  Quiet =>
    \A i \in NodeIds :
      (nodes[i].live /\ nodes[i].mode \cap DMEXCL # {}) => Cardinality(Openers(i)) <= 1

\* C7: for a file created with the exclusive-use bit, an open is refused
\* with "exclusive use file already open" while another fid holds the file
\* open, and succeeds when none does: the first open, and the open after
\* the holder has closed. A fid holds the file from the open that took the
\* in-use flag for it to its clunk. The step is the one in which Fid.Open
\* returns, for a fid that was not open and a user who has the permission
\* its mode asks for.
C7_ExclusiveOpenCycle ==
  [][\A t \in Tags :
       LET f == fids[slots[t].fid]
           nd == nodes[f.node]
           held == \E o \in FidObjs \ {slots[t].fid} :
                     fids[o].live /\ fids[o].holds /\ fids[o].node = f.node
       IN (/\ slots[t].tx.type = Topen
           /\ slots[t].phase \notin ProcPhases \cup {"work"}
           /\ slots'[t].phase = "post"
           /\ nd.mode \cap DMEXCL # {}
           /\ HasPerm(groupmap, nd, f.uid, OpenPerm(slots[t].tx.mode)))
            => slots'[t].err = IF held THEN ErrExcl ELSE ""]_vars

\* C8: a write succeeds only through a fid opened with OWRITE or ORDWR, a
\* read only through a fid opened with OREAD or ORDWR.
C8_IoFollowsOpenMode ==
  [][\A t \in Tags :
       (/\ slots[t].phase \notin ProcPhases
        /\ slots[t].tx.type \in {Tread, Twrite}
        /\ slots'[t].phase = "post" /\ slots'[t].err = "")
         => LET m == fids[slots[t].fid].omode \cap Bits(3)
            IN IF slots[t].tx.type = Twrite THEN m \in {OWRITE, ORDWR}
               ELSE m \in {OREAD, ORDWR}]_vars

\* C9: a create by a user without write permission on the directory fails
\* with "permission denied" and leaves the directory's children as they were:
\* the step in which node.HasPerm gives Fid.Create its answer ends the
\* request in that way.
C9_CreateNeedsWrite ==
  [][\A t \in Tags :
       LET h == slots[t].hp
       IN (/\ slots[t].tx.type = Tcreate
           /\ slots[t].phase \in HpPhases /\ slots'[t].phase \notin HpPhases
           /\ ~HasPerm(groupmap, nodes[h.hn], h.hu, DMWRITE))
            => /\ slots'[t].phase = "post" /\ slots'[t].err = ErrPerm
               /\ DOMAIN nodes'[fids'[slots'[t].fid].node].children
                    = DOMAIN nodes[h.hn].children]_vars

\* C10: a node is detached from its directory only for a user who holds
\* write permission on that directory.
C10_DetachNeedsPermission ==
  [][\A t \in Tags :
       (/\ slots[t].phase = "rmParent" /\ slots'[t].phase # "rmParent"
        /\ Attached(nodes, slots[t].hold))
         => HasPerm(groupmap, nodes[nodes[slots[t].hold].parent],
                    fids[slots[t].fid].uid, DMWRITE)]_vars

(* ------------------------- permission evaluation ---------------------- *)
\* the reference evaluation: unknown users are denied; "none" has the other
\* bits only; everybody else has the other bits, the owner bits when owner and
\* the group bits when a member of the node's group
RefPerm(g, nd, u, wanted) ==
  LET other == Bits(7)
      want == wanted \cap other
      have == IF u = "none" THEN nd.mode \cap other
              ELSE (nd.mode \cap other)
                   \cup (IF nd.uid = u THEN Shr(nd.mode, 6) \cap other ELSE {})
                   \cup (IF nd.gid \in DOMAIN g /\ u \in g[nd.gid].members
                         THEN Shr(nd.mode, 3) \cap other ELSE {})
  IN u \in DOMAIN g /\ want \subseteq have

\* C11: on every node of a reachable state, for every user and every wanted
\* permission, node.HasPerm gives the answer of the reference evaluation.
C11_HasPermIsReference ==
  \A i \in NodeIds : nodes[i].live =>
    \A u \in {"adm", "none", "glenda"} : \A w \in SUBSET Bits(7) :
      HasPerm(groupmap, nodes[i], u, w) = RefPerm(groupmap, nodes[i], u, w)

(* ------------------------------ open modes ---------------------------- *)
\* a client that attaches, walks to one of the files of the initial tree and
\* opens it in every mode
SpecOpen ==
  Init /\ [][\/ (
                \E tx \in
                     {TxAttach(0, u) : u \in {"adm", "none"}}
                \cup {TxWalk(0, 1, w) : w \in {<<>>, <<"adm">>, <<"adm", "group">>, <<"adm", "ctl">>}}
                \cup {TxOpen(1, m) : m \in {OREAD, OWRITE, ORDWR, OEXEC, OTRUNC, OEXEC \cup OTRUNC}}
                \cup {Tx(Tclunk, f) : f \in 0..1} :
                  Quiet /\ Recv(0, tx))
             \/ (
                \E t \in Tags :
                  \/ ProcPre(t) \/ ProcRef(t) \/ ProcPost(t) \/ ProcDelFid(t)
                  \/ DoAttach(t) \/ DoWalk(t) \/ DoHasPerm(t) \/ DoOpen(t)
                  \/ DoClunk(t) \/ DoClose(t))]_vars

\* the permission an open mode requires: read, write, read and write,
\* execute, and write in addition for truncate
RequiredPerm(mode) ==
  (IF mode \cap Bits(3) = OREAD THEN DMREAD
   ELSE IF mode \cap Bits(3) = OWRITE THEN DMWRITE
   ELSE IF mode \cap Bits(3) = ORDWR THEN DMREAD \cup DMWRITE
   ELSE DMEXEC)
  \cup (IF mode \cap OTRUNC # {} THEN DMWRITE ELSE {})

\* C12: an open through a fid that is not yet open fails with "permission
\* denied" exactly when the fid's user lacks the permission its mode
\* requires: the step in which node.HasPerm gives Fid.Open its answer.
C12_OpenPermission ==
  [][\A t \in Tags :
       LET h == slots[t].hp
       IN (/\ slots[t].tx.type = Topen
           /\ slots[t].phase \in HpPhases /\ slots'[t].phase \notin HpPhases)
            => ((slots'[t].phase = "post" /\ slots'[t].err = ErrPerm)
                  <=> ~HasPerm(groupmap, nodes[h.hn], h.hu,
                               RequiredPerm(slots[t].tx.mode)))]_vars

(* ------------------------------ versions ------------------------------ *)
\* a client that creates plain and temporary files, changes the temporary
\* bit, and reads, writes and stats through open and unopened fids. Three
\* bytes written at offset 0 and again at offset 1 leave a block of four
\* bytes under a size of six, and a read at offset 5 is then inside the size
\* and beyond the block
SpecVers ==
  Init /\ [][\/ (
                \E tx \in
                     {TxCreate(0, "x", p, ORDWR) : p \in {F0664, F0664 \cup DMTMP}}
                \cup {TxWstat(0, [NoStat EXCEPT !.mode = m]) : m \in {F0664, F0664 \cup DMTMP}}
                \cup {TxWrite(0), TxOpen(0, OREAD), TxRead(0, 0, 1), TxRead(0, 5, 1)}
                \cup {TxWriteAt(0, <<1, 1, 1>>, off) : off \in 0..1}
                \cup {Tx(ty, 0) : ty \in {Tstat, Tclunk}} :
                  Quiet /\ Recv(0, tx))
             \/ (
                \E t \in Tags :
                  \/ ProcPre(t) \/ ProcRef(t) \/ ProcPost(t) \/ ProcDelFid(t)
                  \/ DoHasPerm(t) \/ DoOpen(t) \/ DoCreate(t) \/ DoCreateOpen(t)
                  \/ DoRead(t) \/ DoWrite(t) \/ DoStat(t) \/ DoWstat(t) \/ WstatCommit(t)
                  \/ DoClunk(t) \/ DoClose(t))]_vars

\* the step is the last one of a successful write of slot t to node i
WroteTo(t, i) ==
  /\ slots[t].phase = "writeVers" /\ slots[t].tx.type = Twrite
  /\ slots'[t].phase = "post" /\ slots'[t].err = ""
  /\ slots[t].hold = i

\* C13: over every step, the version of a regular file (a node is known by
\* its path id) goes up by one when the step is a successful write to it and
\* the file is not temporary, and stays as it is otherwise.
C13_VersionCountsWrites ==
  [][\A i \in NodeIds : \A j \in NodeIds :
       (/\ nodes[i].live /\ nodes'[j].live
        /\ nodes[i].kind = "file" /\ nodes'[j].path = nodes[i].path)
         => nodes'[j].vers =
              IF (\E t \in Tags : WroteTo(t, i)) /\ nodes[i].mode \cap DMTMP = {}
              THEN nodes[i].vers + 1 ELSE nodes[i].vers]_vars

\* a write to a temporary file has just succeeded on a file that was written
\* once before it became temporary
C13_Witness ==
  \E t \in Tags :
    /\ slots[t].phase = "post" /\ slots[t].tx.type = Twrite /\ slots[t].err = ""
    /\ nodes[fids[slots[t].fid].node].mode \cap DMTMP # {}
    /\ nodes[fids[slots[t].fid].node].vers = 1

(* --------------------------- the file buffer -------------------------- *)
MaxFileSize == 6
MaxOff == 7
BlockSizes == {2, 3, 8}
Datas == {<<1>>, <<2, 2>>, <<3, 3, 3>>}

\* writeTests, the writes of TestWriteRead on 8-byte blocks with the block
\* count and the size the test expects after each; bytes are character codes
TestWrites ==
  << [data |-> <<97, 115>>, off |-> 12, blocks |-> 1, size |-> 2],
     [data |-> <<100, 102>>, off |-> 2, blocks |-> 1, size |-> 4],
     [data |-> <<103, 104, 106, 107>>, off |-> 4, blocks |-> 1, size |-> 8],
     [data |-> <<120, 120, 120, 120>>, off |-> 0, blocks |-> 1, size |-> 8],
     [data |-> <<105, 105, 105, 105, 116, 116, 116, 116, 113>>, off |-> 8,
      blocks |-> 3, size |-> 17],
     [data |-> <<115>>, off |-> 0, blocks |-> 3, size |-> 17],
     [data |-> <<117, 117, 117, 117>>, off |-> 800, blocks |-> 3, size |-> 21] >>

\* WriteAt(data, off) on the buffer, then ReadAt into Len(data) bytes at off
WriteThenRead(x, data, off, step) ==
  LET w == FileWriteAt(x.file, x.bs, data, off)
      r == FileReadAt(w.file, x.bs, Len(data), off)
      end == Min(off, x.file.size) + w.n
  IN [file |-> w.file, bs |-> x.bs, wrote |-> TRUE, data |-> data, off |-> off,
      size0 |-> x.file.size, n |-> w.n,
      read |-> IF w.err = "" THEN r.data ELSE <<>>,
      rerr |-> IF w.err = "" THEN r.err ELSE "",
      hwm |-> IF end > x.hwm THEN end ELSE x.hwm,
      step |-> step,
      panic |-> (w.err = "panic" \/ (w.err = "" /\ r.err = "panic"))]

\* any write, then the read at the same offset; the buffer is then no longer
\* the one of TestWriteRead (step -1)
TestWrite(data, off) ==
  /\ ~ftest.panic
  /\ ftest.file.size + Len(data) <= MaxFileSize
  /\ ftest' = WriteThenRead(ftest, data, off, -1)
  /\ UNCHANGED <<fsVars, connVars, slots, reply, cio, crashed, wtest>>

\* the next write of TestWriteRead
ScriptWrite ==
  /\ ~ftest.panic
  /\ ftest.bs = 8
  /\ ftest.step \in 0..(Len(TestWrites) - 1)
  /\ LET wr == TestWrites[ftest.step + 1]
     IN ftest' = WriteThenRead(ftest, wr.data, wr.off, ftest.step + 1)
  /\ UNCHANGED <<fsVars, connVars, slots, reply, cio, crashed, wtest>>

FileInit == InitConn /\ ftest \in {NewTest(bs) : bs \in BlockSizes} /\ wtest = NoWalk

FileNext ==
  \/ \E data \in Datas : \E off \in 0..MaxOff : TestWrite(data, off)
  \/ ScriptWrite

SpecFile == FileInit /\ [][FileNext]_vars

\* C14: after a write at an offset that is not beyond the end, a read at the
\* same offset returns the data written, as far as the size after the write
\* reaches.
C14_ReadBackWrite ==
  (ftest.wrote /\ ftest.off <= ftest.size0)
    => /\ ~ftest.panic /\ ftest.rerr = ""
       /\ ftest.read = SubSeq(ftest.data, 1, Min(Len(ftest.data), ftest.file.size - ftest.off))

\* C15: the size of the buffer is the greatest end of a write so far, where a
\* write ends at its offset, clamped to the size before it, plus the bytes
\* written.
C15_SizeIsHighWaterMark ==
  ~ftest.panic => ftest.file.size = ftest.hwm

\* producedResult, "sxxxghjkiiiittttquuuu"
TestContent ==
  <<115, 120, 120, 120, 103, 104, 106, 107, 105, 105, 105, 105,
    116, 116, 116, 116, 113, 117, 117, 117, 117>>

\* the blocks 0..k-1 one after the other
RECURSIVE Concat(_, _)
Concat(f, k) ==
  IF k = 0 THEN <<>> ELSE Concat(f, k - 1) \o f.block[k - 1]

\* C16: every write returns the length of its input and leaves the blocks
\* numbered 0..k-1 with lengths that add up to the size; the writes of
\* TestWriteRead give the block counts, sizes and content the test expects.
C16_NoFragments ==
  ftest.wrote =>
    LET f == ftest.file
        k == Cardinality(DOMAIN f.block)
    IN /\ ~ftest.panic
       /\ ftest.n = Len(ftest.data)
       /\ DOMAIN f.block = 0..(k - 1)
       /\ Len(Concat(f, k)) = f.size
       /\ ftest.step \in 1..Len(TestWrites) =>
            k = TestWrites[ftest.step].blocks /\ f.size = TestWrites[ftest.step].size
       /\ ftest.step = Len(TestWrites) => Concat(f, k) = TestContent

(* ------------------------------ removal ------------------------------- *)
\* the tree as names and path ids: every node under the root with its
\* parent's path id
TreeShape ==
  {<<nodes[nodes[i].parent].path, nodes[i].name, nodes[i].path>> : i \in TreeNodes}

\* C17: node.remove on a node that is no longer in the tree changes neither
\* the tree nor the set of recycled path ids: its section of the parent's
\* lock leaves the tree as it is and does not go on to delPath.
C17_RemoveDetachedIsNoop ==
  [][\A t \in Tags :
       (/\ slots[t].phase = "rmParent" /\ slots'[t].phase # "rmParent"
        /\ slots[t].hold \notin TreeNodes)
         => /\ TreeShape' = TreeShape /\ pathmap' = pathmap
            /\ slots'[t].phase # "rmPath"]_vars

(* ------------------------------- wstat -------------------------------- *)
\* C18: a wstat that is answered with an error has left the node's mode, name
\* and gid and its directory's entries as they were; one that is answered
\* without error has set every field the request carried (the mode up to the
\* directory bit).
C18_WstatAllOrNothing ==
  [][\A t \in Tags :
       LET dir == slots[t].tx.stat
           nd == nodes[fids[slots[t].fid].node]
           nd2 == nodes'[fids'[slots'[t].fid].node]
       IN (/\ slots[t].tx.type = Twstat
           /\ slots[t].phase \notin ProcPhases
           /\ slots'[t].phase = "post")
            => IF slots'[t].err # ""
               THEN /\ nd2.mode = nd.mode /\ nd2.name = nd.name /\ nd2.gid = nd.gid
                    /\ DOMAIN nodes'[nd2.parent].children = DOMAIN nodes[nd.parent].children
               ELSE /\ dir.mode # AllOnes => nd2.mode \ DMDIR = dir.mode \ DMDIR
                    /\ dir.name # "" => nd2.name = dir.name
                    /\ dir.gid # "" => nd2.gid = dir.gid]_vars

\* a client that creates a file and changes modes, of the file and (as adm) of
\* the root: permission bits only, and modes with the directory bit
SpecWstat ==
  Init /\ [][\/ (
                \E tx \in
                     {TxAttach(0, "adm"), TxCreate(0, "x", F0664, OREAD)}
                \cup {TxWstat(0, [NoStat EXCEPT !.mode = m]) :
                        m \in {Bits(0), Bits(384), F0664, Bits(493), P0777, F0664 \cup DMDIR}}
                \cup {Tx(ty, 0) : ty \in {Tstat, Tclunk}} :
                  Quiet /\ Recv(0, tx))
             \/ (
                \E t \in Tags :
                  \/ ProcPre(t) \/ ProcRef(t) \/ ProcPost(t) \/ ProcDelFid(t)
                  \/ DoAttach(t) \/ DoHasPerm(t) \/ DoCreate(t) \/ DoCreateOpen(t) \/ DoStat(t)
                  \/ DoWstat(t) \/ WstatCommit(t) \/ DoClunk(t) \/ DoClose(t))]_vars

\* C19: no step of a wstat changes the directory bit of the node it is about.
C19_WstatKeepsDirBit ==
  [][\A t \in Tags :
       (/\ slots[t].tx.type = Twstat
        /\ slots[t].phase \notin ProcPhases
        /\ slots'[t] # slots[t])
         => nodes'[fids'[slots'[t].fid].node].mode \cap DMDIR
              = nodes[fids[slots[t].fid].node].mode \cap DMDIR]_vars

\* C20: when a wstat by the owner of a regular file that carries a mode m is
\* answered without error, the low nine bits of the mode Stat reports are
\* those of m.
C20_ChmodRoundTrip ==
  [][\A t \in Tags :
       LET dir == slots[t].tx.stat
           f == fids[slots[t].fid]
       IN (/\ slots[t].tx.type = Twstat
           /\ slots[t].phase \notin ProcPhases
           /\ slots'[t].phase = "post" /\ slots'[t].err = ""
           /\ dir.mode # AllOnes
           /\ nodes[f.node].kind = "file" /\ nodes[f.node].uid = f.uid)
            => nodes'[fids'[slots'[t].fid].node].mode \cap P0777
                 = dir.mode \cap P0777]_vars

(* ------------------------------- rename ------------------------------- *)
\* a client that creates files x and y and a directory x, as none or as adm,
\* and renames them, with and without a mode, then walks to the names; one
\* request at a time
SpecName ==
  Init /\ [][\/ \E tx \in {TxAttach(0, "adm"), TxCreate(0, "x", Bits(509) \cup DMDIR, OREAD)}
                       \cup {TxCreate(0, n, F0664, OREAD) : n \in Names}
                       \cup {TxWstat(0, [NoStat EXCEPT !.name = n, !.mode = m]) :
                               n \in Names, m \in {AllOnes, Bits(432)}}
                       \cup {TxWalk(0, 1, <<n>>) : n \in Names}
                       \cup {Tx(Tclunk, 0), Tx(Tclunk, 1)} :
                  Quiet /\ Recv(0, tx)
             \/ \E t \in Tags :
                  \/ ProcPre(t) \/ ProcRef(t) \/ ProcPost(t) \/ ProcDelFid(t)
                  \/ DoAttach(t) \/ DoWalk(t) \/ DoHasPerm(t) \/ DoCreate(t) \/ DoCreateOpen(t)
                  \/ DoWstat(t) \/ WstatCommit(t) \/ WstatName(t)
                  \/ DoClunk(t) \/ DoClose(t)]_vars

\* C21: a wstat that asks for a new name goes on to the rename only when the
\* caller has write permission in the parent (by the reference evaluation of
\* permissions) and the name is not a child of the parent; when the rename
\* is done the node is the parent's child under the new name and the old
\* name is no longer a child (the old entry goes in the first step of the
\* rename, the new one is made in the last); a rename to a name
\* that is a child is answered with an error ("file exists" when the caller
\* passes the tests that come first) and leaves the parent's entries and the
\* node's name and mode as they were.
C21_Rename ==
  [][\A t \in Tags :
       LET dir == slots[t].tx.stat
           f == fids[slots[t].fid]
           nd == nodes[f.node]
           par == nodes[nd.parent]
           nd2 == nodes'[fids'[slots'[t].fid].node]
           par2 == nodes'[nd2.parent]
           wstat == slots[t].tx.type = Twstat /\ slots[t].phase \notin ProcPhases
       IN /\ (/\ wstat /\ NameCh(nd, dir)
              /\ slots[t].phase # "wsUnlink" /\ slots'[t].phase = "wsUnlink")
               => /\ RefPerm(groupmap, par, f.uid, DMWRITE)
                  /\ dir.name \notin DOMAIN par.children
          /\ (/\ wstat /\ NameCh(nd, dir)
              /\ dir.name \in DOMAIN par.children
              /\ slots'[t] # slots[t])
               => /\ slots'[t].phase \notin {"wsGroup", "wsCommit"}
                  /\ slots'[t].phase = "post" =>
                       /\ slots'[t].err # ""
                       /\ (~ModeCh(nd, dir) \/ f.uid \in {nd.uid, nd.gid})
                            /\ HasPerm(groupmap, par, f.uid, DMWRITE)
                            => slots'[t].err = "file exists"
                  /\ nd2.name = nd.name /\ nd2.mode = nd.mode
                  /\ {<<c, nodes'[par2.children[c]].path>> : c \in DOMAIN par2.children}
                       = {<<c, nodes[par.children[c]].path>> : c \in DOMAIN par.children}
          /\ (slots[t].phase = "wsUnlink" /\ slots'[t] # slots[t])
               => nd.name \notin DOMAIN par2.children
          /\ (slots[t].phase = "wsLink" /\ slots'[t] # slots[t])
               => /\ nd2.name = dir.name
                  /\ DOMAIN par2.children = DOMAIN par.children \cup {dir.name}
                  /\ nodes'[par2.children[dir.name]].path = nd.path
          /\ (/\ wstat /\ slots[t].phase \in {"wsGid", "wsGidSet"}
              /\ slots'[t].phase = "post")
               => slots'[t].err = ""]_vars

\* the commands a client writes: the forms of the manual with users gnot and
\* sys, a user whose name begins with "+", blanks of every kind, and commands
\* with a wrong name, a wrong number of arguments or a wrong second argument
Commands ==
  {"uname gnot gnot", "uname sys :sys", "uname sys +gnot", "uname gnot +sys",
   "uname gnot +gnot", "uname gnot +adm", "uname adm adm", "uname +gnot :x",
   "uname +gnot +gnot", "\tuname  sys\r:other\n", "uname gnot", "uname gnot sys",
   "uname gnot +", "uname gnot :", "uname gnot gnot gnot", "user gnot gnot", " \n"}

\* what a client writes to /adm/ctl: the listen command, with and without
\* its arguments, another command, and blanks
CtlCommands == {"listen tcp :5640", "listen tcp", "halt", " \n"}

\* a client that walks to /adm/group or to /adm/ctl as none or as adm, opens
\* the file, writes commands and reads at the start and far behind the end;
\* one request at a time
SpecGroup ==
  Init /\ [][\/ \E tx \in {TxAttach(0, "adm"), TxOpen(1, ORDWR), TxOpen(1, OWRITE),
                          TxRead(1, 0, 1), TxRead(1, MaxGroupLen + 1, 1), Tx(Tclunk, 1)}
                       \cup {TxWalk(0, 1, <<"adm", n>>) : n \in {"group", "ctl"}} :
                  Quiet /\ Recv(0, tx)
             \/ \E c \in Commands \cup CtlCommands :
                  Quiet /\ Recv(0, [Tx(Twrite, 1) EXCEPT !.data = c])
             \/ \E t \in Tags :
                  \/ ProcPre(t) \/ ProcRef(t) \/ ProcPost(t) \/ ProcDelFid(t)
                  \/ DoAttach(t) \/ DoWalk(t) \/ DoHasPerm(t) \/ DoOpen(t) \/ DoRead(t)
                  \/ DoWrite(t) \/ DoWriteGroup(t) \/ DoClunk(t) \/ DoClose(t)]_vars

\* the forms of a command: uname X X or uname X :G, and uname X +G
UserForm(c) ==
  /\ c.err = "" /\ c.name = "uname" /\ Len(c.args) = 2
  /\ c.args[1] = c.args[2] \/ (Len(c.args[2]) > 1 /\ Head(c.args[2]) = ":")

GroupForm(c) ==
  /\ c.err = "" /\ c.name = "uname" /\ Len(c.args) = 2
  /\ Len(c.args[2]) > 1 /\ Head(c.args[2]) = "+"

\* what the write of a user form does: g is the database before, h after
UserOutcome(g, h, err, x) ==
  IF x \in DOMAIN g
  THEN err = "user " \o x \o " exists" /\ h = g
  ELSE /\ err = ""
       /\ DOMAIN h = DOMAIN g \cup {x}
       /\ h[x] = [leader |-> x, members |-> {}]
       /\ \A u \in DOMAIN g : h[u] = g[u]

\* what the write of a group form does
GroupOutcome(g, h, err, x, grp) ==
  IF x \notin DOMAIN g \/ grp \notin DOMAIN g
  THEN err # "" /\ h = g
  ELSE /\ err = ""
       /\ DOMAIN h = DOMAIN g
       /\ \A u \in DOMAIN g :
            h[u] = IF u = grp /\ x # grp
                   THEN [g[u] EXCEPT !.members = @ \cup {x}] ELSE g[u]

\* the step is group.WriteAt, called by a write of slot t
GroupWrite(t) ==
  /\ slots[t].tx.type = Twrite
  /\ slots[t].phase = "writeBuf" /\ slots'[t].phase # "writeBuf"
  /\ nodes[slots[t].n].kind = "group"

\* the error group.WriteAt returned in the step: the write is answered with
\* it, or goes on to the version when there is none
GroupErr(t) == IF slots'[t].phase = "post" THEN slots'[t].err ELSE ""

\* C26 as stated: a command of a user form has the outcome of a user add, a
\* command of the group form the outcome of a group add, every other write
\* fails and leaves the database as it was.
C26_EveryFormAsStated ==
  [][\A t \in Tags :
       LET c == unmarshal(slots[t].tx.data)
           err == GroupErr(t)
       IN GroupWrite(t) =>
            /\ UserForm(c) => UserOutcome(groupmap, groupmap', err, c.args[1])
            /\ GroupForm(c) =>
                 GroupOutcome(groupmap, groupmap', err, c.args[1], Tail(c.args[2]))
            /\ ~UserForm(c) /\ ~GroupForm(c) => err # "" /\ groupmap' = groupmap]_vars

\* C26, amended: the group form is tried first, so that uname X X with X a
\* "+" followed by at least one byte is a group add; with that, every form
\* has the outcome stated and every failing write leaves the database as it
\* was.
C26_GroupCommands ==
  [][\A t \in Tags :
       LET c == unmarshal(slots[t].tx.data)
           err == GroupErr(t)
       IN GroupWrite(t) =>
            /\ GroupForm(c) =>
                 GroupOutcome(groupmap, groupmap', err, c.args[1], Tail(c.args[2]))
            /\ UserForm(c) /\ ~GroupForm(c) =>
                 UserOutcome(groupmap, groupmap', err, c.args[1])
            /\ ~UserForm(c) /\ ~GroupForm(c) => err # "" /\ groupmap' = groupmap
            /\ err # "" => groupmap' = groupmap]_vars

\* a group add has just put a user made by an earlier write into the members
\* of a group made by another
C26_Witness ==
  \E t \in Tags :
    /\ slots[t].phase = "post" /\ slots[t].tx.type = Twrite /\ slots[t].err = ""
    /\ {"gnot", "sys"} \subseteq DOMAIN groupmap
    /\ groupmap["sys"].members = {"gnot"}
    /\ nodes[fids[slots[t].fid].node].vers = 3

\* the member names of a user in the orders a range over the map can give,
\* each followed by a comma
RECURSIVE Listed(_)
Listed(S) ==
  IF S = {} THEN {""}
  ELSE UNION {{m \o "," \o r : r \in Listed(S \ {m})} : m \in S}

\* user.Bytes: the lines it can return for the user uid
UserBytes(uid, u) ==
  {uid \o ":" \o uid \o ":" \o u.leader \o ":"
       \o (IF Len(l) = 0 THEN l ELSE SubSeq(l, 1, Len(l) - 1)) : l \in Listed(u.members)}

\* the fields of a line between separators
RECURSIVE Split(_, _, _, _)
Split(s, sep, cur, acc) ==
  IF Len(s) = 0 THEN Append(acc, cur)
  ELSE IF Head(s) = sep THEN Split(Tail(s), sep, "", Append(acc, cur))
  ELSE Split(Tail(s), sep, cur \o Head(s), acc)

\* the names in the member list of a line of the group file
MembersOf(line) ==
  LET e == Split(line, ":", "", <<>>)
      m == Split(e[4], ",", "", <<>>)
  IN {m[i] : i \in 1..Len(m)}

\* C27: on a fresh server that has taken the writes uname gnot gnot and
\* uname sys :sys, the write uname sys +gnot succeeds and the line of sys
\* that a read of /adm/group returns then lists gnot among the members.
C27_SysGetsGnot ==
  [][\A t \in Tags :
       LET g1 == GroupWriteAt(newGroup(HostOwner), "uname gnot gnot").g
           g2 == GroupWriteAt(g1, "uname sys :sys").g
       IN (/\ GroupWrite(t)
           /\ slots[t].tx.data = "uname sys +gnot"
           /\ groupmap = g2
           /\ nodes[fids[slots[t].fid].node].vers = 2)
            => /\ GroupErr(t) = ""
               /\ \A line \in UserBytes("sys", groupmap'["sys"]) :
                    "gnot" \in MembersOf(line)]_vars

(* ---------------------------- group changes --------------------------- *)
\* a client that attaches as adm or as none, creates a file, has none added
\* to group adm through /adm/group, and changes the file's group to adm, to
\* none and to a group the database does not have; one request at a time
SpecGid ==
  Init /\ [][\/ \E tx \in {TxAttach(0, u) : u \in {"adm", "none"}}
                       \cup {TxCreate(0, "x", F0664, OREAD), TxWalk(1, 0, <<"x">>),
                             TxWalk(1, 2, <<"adm", "group">>), TxOpen(2, OWRITE)}
                       \cup {TxWstat(0, [NoStat EXCEPT !.gid = g]) :
                               g \in {"adm", "none", "glenda"}}
                       \cup {Tx(ty, 0) : ty \in {Tstat, Tclunk}} :
                  Quiet /\ Recv(0, tx)
             \/ Quiet /\ Recv(0, [Tx(Twrite, 2) EXCEPT !.data = "uname none +adm"])
             \/ \E t \in Tags :
                  \/ ProcPre(t) \/ ProcRef(t) \/ ProcPost(t) \/ ProcDelFid(t)
                  \/ DoAttach(t) \/ DoWalk(t) \/ DoCreate(t) \/ DoCreateOpen(t)
                  \/ DoHasPerm(t) \/ DoOpen(t) \/ DoWrite(t) \/ DoWriteGroup(t)
                  \/ DoStat(t) \/ DoWstat(t) \/ WstatCommit(t)
                  \/ DoClunk(t) \/ DoClose(t)]_vars

\* C22: a wstat that asks for another group is answered without error only
\* when the caller is the node's owner and belongs to the new group (as one
\* of its members or as the user the group is named after); when it is
\* answered with an error the node's gid is as it was.
C22_GroupChange ==
  [][\A t \in Tags :
       LET dir == slots[t].tx.stat
           f == fids[slots[t].fid]
           nd == nodes[f.node]
           nd2 == nodes'[fids'[slots'[t].fid].node]
       IN (/\ slots[t].tx.type = Twstat
           /\ slots[t].phase \notin ProcPhases
           /\ slots'[t].phase = "post"
           /\ dir.gid # "")
            => IF slots'[t].err # ""
               THEN nd2.gid = nd.gid
               ELSE dir.gid # nd2.gid
                    \/ nd.gid = dir.gid
                    \/ /\ f.uid = nd.uid
                       /\ dir.gid \in DOMAIN groupmap
                       /\ f.uid = dir.gid \/ f.uid \in groupmap[dir.gid].members]_vars

(* -------------------------------- walks ------------------------------- *)
MaxWalk == 2

\* TestWalk: the tree of New("") with /a/b/{c/{fa,fb},d} linked into the root
TestTree ==
  [i \in 1..10 |->
     IF i = RootId THEN [InitNodes[i] EXCEPT !.children = MapPut(@, "a", 5)]
     ELSE IF i <= BootNodes THEN InitNodes[i]
     ELSE IF i = 5 THEN [newNode("a", "", "", Bits(509) \cup DMDIR, 0, "dir", RootId)
                          EXCEPT !.children = [k \in {"b"} |-> 6]]
     ELSE IF i = 6 THEN [newNode("b", "", "", Bits(509) \cup DMDIR, 1, "dir", 5)
                          EXCEPT !.children = [k \in {"c", "d"} |->
                                                 IF k = "c" THEN 7 ELSE 8]]
     ELSE IF i = 7 THEN [newNode("c", "", "", Bits(509) \cup DMDIR, 2, "dir", 6)
                          EXCEPT !.children = [k \in {"fa", "fb"} |->
                                                 IF k = "fa" THEN 9 ELSE 10]]
     ELSE IF i = 8 THEN newNode("d", "", "", Bits(509) \cup DMDIR, 3, "dir", 6)
     ELSE IF i = 9 THEN newNode("fa", "", "", F0664, 4, "file", 7)
     ELSE newNode("fb", "", "", F0664, 5, "file", 7)]

\* split: the elements of a path name
split(path) ==
  IF Len(path) = 0 \/ path = "/" \/ path = "." THEN <<>>
  ELSE Split(IF Head(path) = "/" THEN Tail(path) ELSE path, "/", "", <<>>)

\* FS.walk: [node, err]; the node is nil on error
FsWalk(ns, name) ==
  LET path == split(name)
      w == walk(ns, RootId, path, {})
  IN IF Len(path) = 0 THEN [node |-> RootId, err |-> ""]
     ELSE IF w.err # "" THEN [node |-> Nil, err |-> w.err]
     ELSE [node |-> w.node, err |-> ""]

\* Fid.Walk from a fid on node from: [node, err], node being Fid.New.node
FidWalk(ns, from, path) ==
  LET w == walk(ns, from, path, {})
  IN IF Len(path) > MAXWELEM
     THEN [node |-> Nil, err |-> "too many names in walk"]
     ELSE [node |-> w.node, err |-> w.err]

\* the names walked: the tree's, "..", a name of no node, and the empty name
WalkNames == {"..", "a", "b", "c", "d", "fa", "x", ""}

RECURSIVE Paths(_)
Paths(k) ==
  IF k = 0 THEN {<<>>}
  ELSE Paths(k - 1) \cup {Append(p, n) : p \in Paths(k - 1), n \in WalkNames}

RECURSIVE Joined(_)
Joined(p) == IF Len(p) = 0 THEN "" ELSE "/" \o Head(p) \o Joined(Tail(p))

\* the path names given to FS.walk: those of TestWalk, ".", a name without
\* the leading slash, and every path of up to MaxWalk names
WalkPathNames ==
  {"/a/b/c/fa", "/a/b/c/x", "/", "/a/../a/b/../b", ".", "a/b", "/a/b/c/fa/.."}
    \cup {Joined(p) : p \in Paths(MaxWalk)}

TestFsWalk ==
  \E name \in WalkPathNames :
    /\ wtest' = [op |-> "FS.walk", name |-> name, from |-> RootId, path |-> split(name),
                 node |-> FsWalk(TestTree, name).node, err |-> FsWalk(TestTree, name).err]
    /\ UNCHANGED <<fsVars, connVars, slots, reply, cio, crashed, ftest>>

TestFidWalk ==
  \E from \in {1, 5, 6, 7, 9} :
    \E path \in Paths(MaxWalk) \cup {<<"a", "..", "a", "b", "..", "b">>,
                                      [i \in 1..(MAXWELEM + 1) |-> ".."]} :
      /\ wtest' = [op |-> "Fid.Walk", name |-> "", from |-> from, path |-> path,
                   node |-> FidWalk(TestTree, from, path).node,
                   err |-> FidWalk(TestTree, from, path).err]
      /\ UNCHANGED <<fsVars, connVars, slots, reply, cio, crashed, ftest>>

SpecWalk == Init /\ [][TestFsWalk \/ TestFidWalk]_vars

\* the walk by the rule: each name is ".." (to the parent) or the name of a
\* child; [ok, node, left], left being the names from the first one that
\* names no child
RECURSIVE RefWalk(_, _, _)
RefWalk(ns, cur, path) ==
  IF Len(path) = 0 THEN [ok |-> TRUE, node |-> cur]
  ELSE IF Head(path) = ".." THEN RefWalk(ns, ns[cur].parent, Tail(path))
  ELSE IF Head(path) \in DOMAIN ns[cur].children
  THEN RefWalk(ns, ns[cur].children[Head(path)], Tail(path))
  ELSE [ok |-> FALSE, node |-> cur]

\* C23: a walk of at most MAXWELEM names ends without error on the node the
\* rule gives when every name is ".." or names a child, and with "file does
\* not exist" at the first name that names no child (Fid.New then stays on
\* the node before it); the walks of TestWalk come out as the test expects.
C23_WalkFollowsNames ==
  (wtest.op # "" /\ Len(wtest.path) <= MAXWELEM) =>
    LET ref == RefWalk(TestTree, wtest.from, wtest.path)
    IN /\ IF ref.ok THEN wtest.err = "" /\ wtest.node = ref.node
          ELSE /\ wtest.err = ErrNotExist
               /\ wtest.node = IF wtest.op = "FS.walk" THEN Nil ELSE ref.node
       /\ wtest.name = "/a/b/c/fa" => wtest.err = "" /\ TestTree[wtest.node].name = "fa"
       /\ wtest.name = "/" => wtest.err = "" /\ wtest.node = RootId
       /\ wtest.name = "/a/../a/b/../b" => wtest.err = "" /\ TestTree[wtest.node].name = "b"
       /\ wtest.name = "/a/b/c/x" => wtest.err = ErrNotExist

\* FS.walk has gone down, up and down again through directories of mode 0775
\* and ended on b
C23_Witness ==
  /\ wtest.op = "FS.walk" /\ wtest.name = "/a/../a/b/../b"
  /\ wtest.err = "" /\ wtest.node = 6
  /\ TestTree[wtest.node].mode = Bits(509) \cup DMDIR

\* C24: a walk whose first name leads to a directory with the execute bit in
\* its mode ends with "permission denied", on the node it started from.
C24_ExecDirRefused ==
  (wtest.op # "" /\ Len(wtest.path) \in 1..MAXWELEM) =>
    LET ref == RefWalk(TestTree, wtest.from, <<Head(wtest.path)>>)
    IN (ref.ok /\ IsDir(TestTree[ref.node]) /\ TestTree[ref.node].mode \cap DMEXEC # {})
         => /\ wtest.err = ErrPerm
            /\ wtest.op = "Fid.Walk" => wtest.node = wtest.from

(* -------------------------------- attach ------------------------------ *)
\* a client that attaches with and without an afid, as users in and out of
\* the group database, to paths that exist and one that does not, and then
\* asks for the stat of the fid or creates through it
SpecAttach ==
  Init /\ [][\/ (
                \E tx \in
                     {[TxAttach(0, u) EXCEPT !.aname = p, !.afid = a] :
                        u \in {"adm", "none", "glenda"},
                        p \in {<<>>, <<"adm">>, <<"adm", "group">>, <<"x">>},
                        a \in {NOFID, Bits(1)}}
                \cup {Tx(Tstat, 0), Tx(Tclunk, 0), TxCreate(0, "x", F0664, OREAD)} :
                  Quiet /\ Recv(0, tx))
             \/ (
                \E t \in Tags :
                  \/ ProcPre(t) \/ ProcRef(t) \/ ProcPost(t) \/ ProcDelFid(t)
                  \/ DoAttach(t) \/ DoStat(t) \/ DoHasPerm(t) \/ DoCreate(t) \/ DoCreateOpen(t)
                  \/ DoClunk(t) \/ DoClose(t))]_vars

\* the node and the user a request on fid number num acts on and as: those of
\* the fid in the map, or of the fid conn.GetFid makes when there is none
WouldGet(fs, fm, uid, num) ==
  IF fm[num] # Nil THEN [node |-> fs[fm[num]].node, uid |-> fs[fm[num]].uid]
  ELSE [node |-> RootId, uid |-> uid]

\* C25: when an attach with afid NOFID, user u and path p has been answered
\* with Rattach, a request on its fid number acts on the node at p as u (as
\* none when u is not in the group database); an attach with another afid or
\* with a path that does not exist ends in an error and changes neither the
\* connection's user nor what a request on the fid number acts on.
C25_Attach ==
  [][\A t \in Tags :
       LET tx == slots[t].tx
           u == IF tx.uname \in DOMAIN groupmap THEN tx.uname ELSE "none"
       IN /\ (/\ tx.type = Tattach /\ slots[t].phase = "out" /\ slots[t].err = ""
              /\ slots'[t].phase = "idle") =>
               /\ tx.afid = NOFID
               /\ walk(nodes', RootId, tx.aname, {}).err = ""
               /\ WouldGet(fids', fidmap', cuid', tx.fid)
                    = [node |-> walk(nodes', RootId, tx.aname, {}).node, uid |-> u]
          /\ (/\ tx.type = Tattach /\ slots[t].phase \notin ProcPhases
              /\ slots'[t].phase = "post"
              /\ (tx.afid # NOFID \/ walk(nodes, RootId, tx.aname, {}).err # "")) =>
               /\ slots'[t].err # ""
               /\ cuid' = cuid /\ nodes' = nodes
               /\ WouldGet(fids', fidmap', cuid', tx.fid) = WouldGet(fids, fidmap, cuid, tx.fid)
    ]_vars

(* ------------------------- requests in flight ------------------------- *)
\* two clients on one connection, each with one request in flight: stats,
\* clunks, walks, opens for writing (which the root refuses), version and
\* auth requests on fid 0, in every interleaving
SpecFlight ==
  Init /\ [][\/ (
                \E t \in Tags :
                  \E tx \in
                    IF t = 0
                    THEN {Tx(Tstat, 0), Tx(Tclunk, 0), TxWalk(0, 1, <<"adm">>),
                          [Tx(Tversion, 0) EXCEPT !.msize = 8192], Tx(Tauth, 0)}
                    ELSE {Tx(Tstat, 0), Tx(Tclunk, 0), TxOpen(0, OWRITE),
                          [Tx(Tversion, 0) EXCEPT !.msize = 8192]} :
                    Recv(t, tx))
             \/ (
                \E t \in Tags :
                  \/ ProcPre(t) \/ ProcRef(t) \/ ProcPost(t) \/ ProcDelFid(t)
                  \/ DoVersion(t) \/ DoAuth(t) \/ DoStat(t) \/ DoWalk(t)
                  \/ DoHasPerm(t) \/ DoOpen(t) \/ DoClunk(t))]_vars

\* C28: an entry leaves the fid map only in a step in which the refcount of
\* its fid is zero and no request on that fid other than the one being
\* answered is in flight (a request whose reply is all that is left to do is
\* not counted).
C28_RemovedOnlyAtZero ==
  [][\A k \in FidNums :
       (fidmap[k] # Nil /\ fidmap'[k] = Nil) =>
         /\ fids[fidmap[k]].ref = 0
         /\ \A t \in Tags :
              (slots[t].fid = fidmap[k] /\ slots[t].phase \notin {"idle", "out"})
                => slots[t].phase = "delRef" /\ slots'[t].phase = "out"]_vars

\* the requests dispatched on fid object o and not yet answered: proc has
\* called incRef for them and has not yet called decRef
InFlight(o) ==
  {t \in Tags : slots[t].fid = o
                 /\ slots[t].phase \notin {"idle", "pre", "ref", "del", "delRef", "out"}}

\* C30: the refcount of every fid object is the number of requests that were
\* dispatched on it (incRef done) and are not yet answered (decRef not yet
\* done); it is zero when there is no such request.
C30_RefCountsRequests ==
  \A o \in FidObjs : fids[o].live => fids[o].ref = Cardinality(InFlight(o))

\* two requests on one fid are in flight at once, one of them back from its
\* handler with an error
C30_Witness ==
  \E o \in FidObjs :
    /\ fids[o].live /\ fids[o].ref = 2 /\ InFlight(o) = Tags
    /\ \E t \in Tags : slots[t].phase = "post" /\ slots[t].err # ""

(* -------------------------------- locks ------------------------------- *)
\* adm empties the tree from the leaves up, through fid 1 and at last through
\* fid 0 on the root, while a second client renames the node of fid 1; the
\* renames run beside the removes, the other requests are sent one at a time
SpecLock ==
  Init /\ [][\/ \E tx \in {TxAttach(0, "adm"), TxOpen(0, OREAD), TxOpen(1, OWRITE)}
                       \cup {TxWalk(0, 1, w) : w \in {<<"adm", "group">>, <<"adm", "ctl">>, <<"adm">>}} :
                  Quiet /\ Recv(0, tx)
             \/ \E f \in 0..1 : Recv(0, Tx(Tremove, f))
             \/ /\ slots[0].phase = "idle" \/ slots[0].tx.type = Tremove
                /\ Recv(1, TxWstat(1, [NoStat EXCEPT !.name = "y"]))
             \/ (
                \E t \in Tags :
                  \/ ProcPre(t) \/ ProcRef(t) \/ ProcPost(t) \/ ProcDelFid(t)
                  \/ DoAttach(t) \/ DoWalk(t) \/ DoHasPerm(t) \/ DoOpen(t)
                  \/ DoClunk(t) \/ DoClose(t) \/ DoRemove(t) \/ NodeRemove(t)
                  \/ DoWstat(t) \/ WstatCommit(t) \/ WstatName(t))]_vars

\* the node whose lock the handler of t is blocked on while it holds another:
\* node.remove asks for the parent's lock under the node's, the rename of
\* node.Wstat for the node's lock under the parent's
WaitsFor(t) ==
  IF slots[t].phase = "rmParent" THEN nodes[slots[t].hold].parent
  ELSE IF slots[t].phase = "wsName" THEN slots[t].n
  ELSE Nil

\* C29: no request waits for a lock that it holds itself, and no two requests
\* wait for locks the other one holds.
C29_NoDeadlock ==
  \A t \in Tags : \A u \in Tags :
    ~(/\ ~crashed
      /\ WaitsFor(t) # Nil /\ WaitsFor(t) = slots[u].hold
      /\ WaitsFor(u) # Nil /\ WaitsFor(u) = slots[t].hold)

(* ------------------------ create of a name in use --------------------- *)
\* C31: a create that finds its name in the directory takes no path id (the
\* counter and the recycle set stay as they are) and changes no node; the
\* open of the existing node that follows changes nothing but that node's
\* in-use and remove-on-close flags, and the fid then refers to that node.
C31_CreateExistingFrame ==
  [][\A t \in Tags :
       /\ (/\ slots[t].phase \in {"createPath", "createLink"} /\ slots[t].tx.type = Tcreate
           /\ slots[t].tx.name \in DOMAIN nodes[slots[t].hold].children
           /\ slots'[t] # slots[t])
            => fspath' = fspath /\ pathmap' = pathmap /\ nodes' = nodes
       /\ (slots[t].phase \in {"createOpen", "createFlag"} /\ slots'[t] # slots[t])
            => /\ fspath' = fspath /\ pathmap' = pathmap
               /\ \A i \in NodeIds :
                    [nodes'[i] EXCEPT !.open = nodes[i].open, !.orclose = nodes[i].orclose]
                      = nodes[i]
       /\ (slots[t].phase = "createSet" /\ slots'[t].phase = "qidNode")
            => fids'[slots'[t].fid].node = slots'[t].n]_vars

(* --------------------------- groups of nodes -------------------------- *)
\* C32: the group id of every node is the name of an entry of the group
\* database.
C32_GidInDatabase ==
  \A i \in NodeIds : nodes[i].live => nodes[i].gid \in DOMAIN groupmap

(* ---------------------------- the error latch ------------------------- *)
\* the stream starts to fail, for reads, for writes or for both
StreamBreaks ==
  /\ ~crashed
  /\ \E r \in BOOLEAN, w \in BOOLEAN :
       /\ (r /\ ~cio.rbroken) \/ (w /\ ~cio.wbroken)
       /\ cio' = [cio EXCEPT !.rbroken = @ \/ r, !.wbroken = @ \/ w]
  /\ UNCHANGED <<fsVars, connVars, slots, reply, crashed, ftest, wtest>>

\* conn.recv: ReadFcall returns an error, setErr is called and recv returns
RecvFails ==
  /\ ~crashed
  /\ cio.rbroken /\ ~cio.eof
  /\ cio' = [Failed(cio, "read error") EXCEPT !.eof = TRUE]
  /\ UNCHANGED <<fsVars, connVars, slots, reply, crashed, ftest, wtest>>

\* two clients that send stats and flushes on a stream that may break
SpecLatch ==
  Init /\ [][\/ (\E t \in Tags : \E tx \in {Tx(Tstat, 0), Tx(Tflush, 0)} : Recv(t, tx))
             \/ StreamBreaks
             \/ RecvFails
             \/ (
                \E t \in Tags :
                  \/ ProcPre(t) \/ ProcRef(t) \/ ProcPost(t)
                  \/ DoStat(t) \/ DoFlush(t))]_vars

\* C33: once a read or a write of a frame has failed, conn.err is the first
\* error that was returned.
C33_LatchHoldsFirstError == cio.first # "" => getErr(cio) = cio.first

\* C34: the call of DelFid after a successful attach, walk or clunk finds an
\* entry under the fid number in the fid map: no such step ends in the panic.
C34_DelFidFindsFid ==
  [][\A t \in Tags :
       (slots[t].phase = "del" /\ ProcDelFid(t))
         => fidmap[fids[slots[t].fid].num] # Nil /\ ~crashed']_vars

(* ---------------------------- opens that fail ------------------------- *)
\* C35: an open that ends in an error leaves the fid's opened flag and the
\* node's in-use and remove-on-close flags as they were: an open that got
\* past the test for an open fid and then returns an error leaves the fid
\* not open, and its last step changes no flag of the node.
C35_FailedOpenChangesNothing ==
  [][\A t \in Tags :
       (/\ slots[t].phase \notin ProcPhases \cup {"work"} /\ slots[t].tx.type = Topen
        /\ slots'[t].phase = "post" /\ slots'[t].err # "")
         => LET f == fids[slots[t].fid]
                g == fids'[slots'[t].fid]
            IN /\ ~g.opened
               /\ nodes'[g.node].open = nodes[f.node].open
               /\ nodes'[g.node].orclose = nodes[f.node].orclose]_vars

(* --------------------------- concurrent walks ------------------------- *)
\* two clients that walk from fid 0 to the newfids 1 and 2, each with names
\* of its own, and ask for the stat of the fids and clunk them
SpecWalks ==
  Init /\ [][\/ (
                \E t \in Tags :
                  \E tx \in
                    IF t = 0
                    THEN {TxWalk(0, 1, w) : w \in {<<"adm">>, <<"adm", "ctl">>, <<"x">>}}
                         \cup {Tx(Tstat, 1), Tx(Tclunk, 1)}
                    ELSE {TxWalk(0, 2, w) : w \in {<<>>, <<"adm", "group">>}}
                         \cup {Tx(Tstat, 2), Tx(Tclunk, 2)} :
                    Recv(t, tx))
             \/ (
                \E t \in Tags :
                  \/ ProcPre(t) \/ ProcRef(t) \/ ProcPost(t) \/ ProcDelFid(t)
                  \/ DoWalk(t) \/ DoStat(t) \/ DoClunk(t))]_vars

\* C36: when the handler of a walk returns without error, the newfid of its
\* request refers to the node that the request's names lead to from the node
\* of the source fid.
C36_WalkSetsOwnNewfid ==
  [][\A t \in Tags :
       (/\ slots[t].phase \notin ProcPhases /\ slots[t].tx.type = Twalk
        /\ slots'[t].phase = "post" /\ slots'[t].err = "")
         => LET tx == slots[t].tx
                w == walk(nodes, fids[slots[t].fid].node, tx.wname, {})
            IN /\ fidmap'[tx.newfid] # Nil
               /\ fids'[fidmap'[tx.newfid]].node = w.node]_vars

(* ------------------------- the user of a fid -------------------------- *)
\* C37: when the handler of a walk returns without error, the fid under the
\* request's newfid number has the user id of the source fid.
C37_WalkKeepsUser ==
  [][\A t \in Tags :
       (/\ slots[t].phase \notin ProcPhases /\ slots[t].tx.type = Twalk
        /\ slots'[t].phase = "post" /\ slots'[t].err = "")
         => /\ fidmap'[slots[t].tx.newfid] # Nil
            /\ fids'[fidmap'[slots[t].tx.newfid]].uid = fids[slots[t].fid].uid]_vars

\* C38: when a successful walk has been answered, a request on the number of
\* its source fid acts on the node the source fid was on and as the user it
\* had (every walk of the specification has a newfid other than its fid).
C38_WalkKeepsSource ==
  [][\A t \in Tags :
       (/\ slots[t].phase = "out" /\ slots[t].tx.type = Twalk /\ slots[t].err = ""
        /\ slots'[t].phase = "idle")
         => WouldGet(fids', fidmap', cuid', slots[t].tx.fid)
              = [node |-> fids[slots[t].fid].node, uid |-> fids[slots[t].fid].uid]]_vars

(* -------------------------- remove on close --------------------------- *)
\* C39: a clunk goes on to remove the node of its fid only when that fid was
\* opened with ORCLOSE.
C39_OnlyOwnRemoveOnClose ==
  [][\A t \in Tags :
       (/\ slots[t].phase = "rmCheck" /\ slots[t].tx.type = Tclunk
        /\ slots'[t].phase = "rmParent"
        /\ Attached(nodes, fids[slots[t].fid].node))
         => fids[slots[t].fid].omode \cap ORCLOSE # {}]_vars

(* ----------------------- fids dropped by a version -------------------- *)
\* a client creates an exclusive-use file once, walks to it, opens it, clunks
\* and sends version requests; every goroutine of the server that can take a
\* step takes it in the end, the client need not send anything
SpecDrop ==
  /\ Init
  /\ [][\/ (
           \E tx \in
                {TxCreate(0, "x", F0664 \cup DMEXCL, OREAD), TxWalk(0, 1, <<"x">>),
                 TxOpen(1, OREAD), [Tx(Tversion, 0) EXCEPT !.msize = 8192]}
           \cup {Tx(Tclunk, f) : f \in 0..1} :
             /\ Quiet
             /\ tx.type = Tcreate => "x" \notin DOMAIN nodes[RootId].children
             /\ Recv(0, tx))
        \/ (
           \E t \in Tags :
             \/ ProcPre(t) \/ ProcRef(t) \/ ProcPost(t) \/ ProcDelFid(t)
             \/ DoVersion(t) \/ DoWalk(t) \/ DoHasPerm(t) \/ DoOpen(t) \/ DoCreate(t)
             \/ DoClunk(t) \/ DoClose(t))]_vars
  /\ WF_vars(\E t \in Tags :
               \/ ProcPre(t) \/ ProcRef(t) \/ ProcPost(t) \/ ProcDelFid(t)
               \/ DoVersion(t) \/ DoWalk(t) \/ DoHasPerm(t) \/ DoOpen(t) \/ DoCreate(t)
               \/ DoClunk(t) \/ DoClose(t))

\* node i is an exclusive-use file of the tree that is marked in use while no
\* fid of the server has it open and no request is being served
Orphaned(i) ==
  /\ Quiet
  /\ nodes[i].live /\ i \in TreeNodes
  /\ nodes[i].mode \cap DMEXCL # {} /\ nodes[i].open
  /\ \A o \in FidObjs : ~(fids[o].live /\ fids[o].node = i /\ fids[o].opened)

\* C40: an exclusive-use file that is in use although no fid has it open any
\* more is released in the end: its in-use flag is cleared (or the file is
\* gone).
C40_DroppedHoldReleased ==
  \A i \in NodeIds : Orphaned(i) ~> (~nodes[i].live \/ ~nodes[i].open)

====
